---- MODULE Spec2Model ----
(***************************************************************************)
(* State-machine gating of tools / prompts / resources.                    *)
(*                                                                         *)
(* The module models                                                       *)
(*   - the builder (builder.py): add_state / add_edge / add_terminal, the  *)
(*     fluent on_success / on_error surface, reflexive completion, build;  *)
(*   - the validator (validator.py): structural checks, availability,      *)
(*     filtered BFS, and the two pruning passes, including which Python    *)
(*     list object each pass writes to;                                    *)
(*   - the runtime (state_machine.py, transition_scope.py) and the         *)
(*     state-aware managers wrapped around it.                             *)
(*                                                                         *)
(* Python objects that are shared by reference are modelled by one value   *)
(* that both owners read: the dict of states handed to StateMachine is the *)
(* builder's dict, the list of edges is copied (list(edges)).              *)
(***************************************************************************)
EXTENDS Integers, Sequences, FiniteSets, TLC

None == "None"

\* ResultType (types.py)
SUCCESS == "success"
ERROR == "error"
ResultType == <<SUCCESS, ERROR>>

(***************************************************************************)
(* Sigma: input symbols                                                    *)
(***************************************************************************)

\* InputSymbol.make_id: sha1 over kind \x1f ident \x1f result.  The digest is
\* modelled by its pre-image (the payload string); distinct payloads are
\* assumed to have distinct digests.
make_id(kind, ident, result) == kind \o "/" \o ident \o "/" \o result

InputSymbol(kind, ident, result) ==
    [kind |-> kind, ident |-> ident, result |-> result,
     id |-> make_id(kind, ident, result)]

\* RESULT_FACTORIES: the kinds reflexive completion can build symbols for
RESULT_FACTORIES == {"tool", "prompt", "resource"}

(***************************************************************************)
(* Q and delta                                                             *)
(***************************************************************************)

\* State(name, terminals): terminals is a list kept duplicate-free by
\* add_terminal and only ever tested for membership; modelled as a set.
State(name, terminals) == [name |-> name, terminals |-> terminals]

Edge(from_state, to_state, symbol_id, effect) ==
    [from_state |-> from_state, to_state |-> to_state,
     symbol_id |-> symbol_id, effect |-> effect]

\* dict[str, State] as an insertion-ordered sequence of State records
Names(sts) == {sts[i].name : i \in DOMAIN sts}

StateOf(sts, name) == (CHOOSE i \in DOMAIN sts : sts[i].name = name)

TerminalsOf(sts, name) ==
    IF name \in Names(sts) THEN sts[StateOf(sts, name)].terminals ELSE {}

Range(s) == {s[i] : i \in DOMAIN s}

\* A local variable: body F evaluated with the value v bound to its name
With(v, F(_)) == F(v)

(***************************************************************************)
(* Builder (_InternalStateMachineBuilder)                                  *)
(* A builder value B is [initial, states, edges, symbols_by_id, exc,       *)
(* warned]; exc is the exception the last call raised (None when it        *)
(* returned), warned the logger.warning messages it emitted.               *)
(***************************************************************************)

NewBuilder ==
    [initial |-> None, states |-> <<>>, edges |-> <<>>,
     symbols_by_id |-> <<>>, exc |-> None, warned |-> {},
     \* the messages a ValueError of _validate lists
     errors |-> {}]

\* add_state letting every initial declaration replace the one before
add_state_last_wins(B, name, is_initial) ==
    LET B1 == IF name \in Names(B.states) THEN B
              ELSE [B EXCEPT !.states = Append(@, State(name, {}))]
    IN  IF is_initial THEN [B1 EXCEPT !.initial = name] ELSE B1

add_state(B, name, is_initial) ==
    LET B1 == IF name \in Names(B.states) THEN B
              ELSE [B EXCEPT !.states = Append(@, State(name, {}))]
    IN  IF ~is_initial THEN B1
        ELSE IF B1.initial = None \/ B1.initial = name
        THEN [B1 EXCEPT !.initial = name]
        ELSE [B1 EXCEPT !.warned = @ \cup {"initial already set"}]

record_symbol(B, symbol) ==
    IF symbol.id \in DOMAIN B.symbols_by_id
    THEN B
    ELSE [B EXCEPT !.symbols_by_id = @ @@ (symbol.id :> symbol)]

\* add_terminal replacing the state's terminal set by the new symbol
add_terminal_replacing(B, state_name, symbol) ==
    IF state_name \notin Names(B.states)
    THEN [B EXCEPT !.exc = "KeyError"]
    ELSE LET B1 == record_symbol(B, symbol)
             i == StateOf(B1.states, state_name)
         IN  [B1 EXCEPT !.states[i].terminals = {symbol.id}]

add_terminal(B, state_name, symbol) ==
    IF state_name \notin Names(B.states)
    THEN [B EXCEPT !.exc = "KeyError"]
    ELSE LET B1 == record_symbol(B, symbol)
             i == StateOf(B1.states, state_name)
         IN  [B1 EXCEPT !.states[i].terminals = @ \cup {symbol.id}]

\* add_edge without the ambiguity test: a second target for a
\* (from_state, symbol_id) pair is appended like any new edge.
add_edge_unchecked(B, from_state, to_state, symbol, effect) ==
    IF from_state \notin Names(B.states)
    THEN [B EXCEPT !.exc = "KeyError"]
    ELSE With(record_symbol(IF to_state \notin Names(B.states)
                            THEN add_state(B, to_state, FALSE)
                            ELSE B,
                            symbol),
           LAMBDA B2 :
             LET sid == symbol.id
                 duplicate == \E i \in DOMAIN B2.edges :
                                  /\ B2.edges[i].from_state = from_state
                                  /\ B2.edges[i].symbol_id = sid
                                  /\ B2.edges[i].to_state = to_state
             IN  IF duplicate
                 THEN [B2 EXCEPT !.warned = @ \cup {"edge already exists"}]
                 ELSE [B2 EXCEPT !.edges =
                           Append(@, Edge(from_state, to_state, sid, effect))])

\* add_edge where a re-declared edge takes the new effect
add_edge_last_effect(B, from_state, to_state, symbol, effect) ==
    IF from_state \notin Names(B.states)
    THEN [B EXCEPT !.exc = "KeyError"]
    ELSE With(record_symbol(IF to_state \notin Names(B.states)
                            THEN add_state(B, to_state, FALSE)
                            ELSE B,
                            symbol),
           LAMBDA B2 :
             LET sid == symbol.id
                 duplicate == \E i \in DOMAIN B2.edges :
                                  /\ B2.edges[i].from_state = from_state
                                  /\ B2.edges[i].symbol_id = sid
                                  /\ B2.edges[i].to_state = to_state
                 ambiguous == \E i \in DOMAIN B2.edges :
                                  /\ B2.edges[i].from_state = from_state
                                  /\ B2.edges[i].symbol_id = sid
                                  /\ B2.edges[i].to_state # to_state
             IN  IF duplicate
                 THEN [B2 EXCEPT !.edges =
                           [k \in DOMAIN @ |->
                               IF /\ @[k].from_state = from_state
                                  /\ @[k].symbol_id = sid
                               THEN Edge(from_state, to_state, sid, effect)
                               ELSE @[k]]]
                 ELSE IF ambiguous
                 THEN [B2 EXCEPT !.warned = @ \cup {"ambiguous edge"}]
                 ELSE [B2 EXCEPT !.edges =
                           Append(@, Edge(from_state, to_state, sid, effect))])

\* add_edge creating the placeholder target before it looks up from_state
add_edge_placeholder_first(B, from_state, to_state, symbol, effect) ==
    With(IF to_state \notin Names(B.states)
         THEN add_state(B, to_state, FALSE) ELSE B,
         LAMBDA B1 :
           IF from_state \notin Names(B1.states)
           THEN [B1 EXCEPT !.exc = "KeyError"]
           ELSE add_edge_unchecked(B1, from_state, to_state, symbol, effect))

\* add_edge; the warning for a duplicate names the ignored edge and its effect
add_edge(B, from_state, to_state, symbol, effect) ==
    IF from_state \notin Names(B.states)
    THEN [B EXCEPT !.exc = "KeyError"]
    ELSE With(record_symbol(IF to_state \notin Names(B.states)
                            THEN add_state(B, to_state, FALSE)
                            ELSE B,
                            symbol),
           LAMBDA B2 :
             LET sid == symbol.id
                 duplicate == \E i \in DOMAIN B2.edges :
                                  /\ B2.edges[i].from_state = from_state
                                  /\ B2.edges[i].symbol_id = sid
                                  /\ B2.edges[i].to_state = to_state
                 ambiguous == \E i \in DOMAIN B2.edges :
                                  /\ B2.edges[i].from_state = from_state
                                  /\ B2.edges[i].symbol_id = sid
                                  /\ B2.edges[i].to_state # to_state
             IN  IF duplicate
                 THEN [B2 EXCEPT !.warned = @ \cup {"edge already exists",
                                                "ignored effect " \o effect}]
                 ELSE IF ambiguous
                 THEN [B2 EXCEPT !.warned = @ \cup {"ambiguous edge"}]
                 ELSE [B2 EXCEPT !.edges =
                           Append(@, Edge(from_state, to_state, sid, effect))])

\* BaseTransitionAPI.on_success / on_error: add_edge, then add_terminal when
\* terminal is set; a KeyError of add_edge ends the call.
on_outcome(B, kind, from_state, name, result, to_state, terminal, effect) ==
    With(InputSymbol(kind, name, result), LAMBDA symbol :
      With(add_edge(B, from_state, to_state, symbol, effect), LAMBDA B1 :
        IF B1.exc # None THEN B1
        ELSE IF terminal THEN add_terminal(B1, to_state, symbol)
        ELSE B1))

on_success(B, kind, from_state, name, to_state, terminal, effect) ==
    on_outcome(B, kind, from_state, name, SUCCESS, to_state, terminal, effect)

on_error(B, kind, from_state, name, to_state, terminal, effect) ==
    on_outcome(B, kind, from_state, name, ERROR, to_state, terminal, effect)

\* The binding (from_state, kind, ident) of an edge, <<>> for an unknown id
BindingKey(B, e) ==
    IF e.symbol_id \in DOMAIN B.symbols_by_id
    THEN <<e.from_state, B.symbols_by_id[e.symbol_id].kind,
           B.symbols_by_id[e.symbol_id].ident>>
    ELSE <<>>

\* present[key]: the results the edges declared for a binding
PresentResults(B, key) ==
    {B.symbols_by_id[e.symbol_id].result :
        e \in {x \in Range(B.edges) : BindingKey(B, x) = key}}

\* The synthesized edge led to the first declared state
SelfLoop_to_first(B, from_state, kind, ident, result) ==
    With(add_edge(B, from_state, B.states[1].name,
                  InputSymbol(kind, ident, result), None),
         LAMBDA B1 : [B1 EXCEPT !.warned = @ \cup {"reflexive completion"}])

\* The body of the second loop: add the self-loop and log the warning
SelfLoop(B, from_state, kind, ident, result) ==
    With(add_edge(B, from_state, from_state,
                  InputSymbol(kind, ident, result), None),
         LAMBDA B1 : [B1 EXCEPT !.warned = @ \cup {"reflexive completion"}])

\* The second loop of _complete_reflexive_edges, for the bindings first seen
\* at edges i, i+1, ... of the list E the first loop read (dict order).
RECURSIVE CompleteFrom(_, _, _, _)
CompleteFrom(B, E, P, i) ==
    IF i > Len(E) THEN B
    ELSE With(BindingKey(P, E[i]), LAMBDA key :
           IF key = <<>> \/ \E j \in 1..(i - 1) : BindingKey(P, E[j]) = key
           THEN CompleteFrom(B, E, P, i + 1)
           ELSE With(PresentResults(P, key), LAMBDA have :
                  With(IF SUCCESS \in have THEN B
                       ELSE SelfLoop(B, key[1], key[2], key[3], SUCCESS),
                       LAMBDA B1 :
                         CompleteFrom(IF ERROR \in have THEN B1
                                      ELSE SelfLoop(B1, key[1], key[2], key[3], ERROR),
                                      E, P, i + 1))))

\* build() without the completion pass
complete_reflexive_edges_skipped(B) == B

complete_reflexive_edges(B) ==
    IF B.edges = <<>> THEN B
    ELSE IF \E e \in Range(B.edges) :
                /\ BindingKey(B, e) # <<>>
                /\ BindingKey(B, e)[2] \notin RESULT_FACTORIES
         THEN [B EXCEPT !.exc = "ValueError"]
         ELSE CompleteFrom(B, B.edges, B, 1)

(***************************************************************************)
(* Validator (StateMachineValidator)                                       *)
(* A validator value V is [states, edges, b_edges, aliased, symbols_by_id, *)
(* initial_state, issues, available, reachable, has_reachable_terminal].   *)
(* states is the builder's dict (same object).  edges is self.edges;       *)
(* b_edges is the builder's list object; aliased says whether self.edges   *)
(* still is that object.  The managers M are the external registries:      *)
(* [tools, prompts, resources, templates], templates being the URIs some   *)
(* resource template matches.                                              *)
(***************************************************************************)

ValidationIssue(level, message) == <<level, message>>

\* issues is a list in the code; only membership and level are read
HasError(issues) == \E i \in issues : i[1] = "error"

NewValidator(B) ==
    [states |-> B.states, edges |-> B.edges, b_edges |-> B.edges,
     aliased |-> TRUE, symbols_by_id |-> B.symbols_by_id,
     initial_state |-> B.initial, issues |-> {},
     \* None in the code; every reader substitutes the three empty sets
     available |-> [tools |-> {}, prompts |-> {}, resources |-> {}], reachable |-> {}, has_reachable_terminal |-> FALSE]

is_symbol_available(sym, available) ==
    IF sym.kind = "tool" THEN sym.ident \in available.tools
    ELSE IF sym.kind = "prompt" THEN sym.ident \in available.prompts
    ELSE IF sym.kind = "resource" THEN sym.ident \in available.resources
    ELSE FALSE

\* The identifiers of one kind the edges reference through Sigma
Refs(V, kind) ==
    {V.symbols_by_id[e.symbol_id].ident :
        e \in {x \in Range(V.edges) :
                  /\ x.symbol_id \in DOMAIN V.symbols_by_id
                  /\ V.symbols_by_id[x.symbol_id].kind = kind}}

collect_available_and_check_refs(V, M) ==
    With(Refs(V, "resource"), LAMBDA resource_refs :
      LET resource_idents ==
              M.resources \cup ((resource_refs \ M.resources) \cap M.templates)
          missing ==
              {ValidationIssue("error", <<"tool not registered", t>>) :
                  t \in Refs(V, "tool") \ M.tools}
              \cup {ValidationIssue("error", <<"prompt not registered", p>>) :
                  p \in Refs(V, "prompt") \ M.prompts}
              \cup {ValidationIssue("error", <<"resource not registered", r>>) :
                  r \in resource_refs \ resource_idents}
      IN  [V EXCEPT !.issues = @ \cup missing,
                    !.available = [tools |-> M.tools, prompts |-> M.prompts,
                                   resources |-> resource_idents]])

\* An edge the BFS traverses: known symbol, available artifact
Traversable(V, e, available) ==
    /\ e.symbol_id \in DOMAIN V.symbols_by_id
    /\ is_symbol_available(V.symbols_by_id[e.symbol_id], available)

\* The BFS loop: seen grows by the targets of traversable edges leaving the
\* states taken from the queue, until the queue is empty.
RECURSIVE BFS(_, _, _, _)
BFS(V, available, seen, queue) ==
    IF queue = {} THEN seen
    ELSE With({e.to_state :
                  e \in {x \in Range(V.edges) :
                            /\ x.from_state \in queue
                            /\ Traversable(V, x, available)}},
           LAMBDA next :
             With((next \cap Names(V.states)) \ seen, LAMBDA new :
               BFS(V, available, seen \cup new, new)))

\* The flag set by any reachable edge, terminal for its target or not
compute_reachable_any_edge(V, available) ==
    IF V.initial_state = None
    THEN [V EXCEPT !.reachable = {}, !.has_reachable_terminal = FALSE]
    ELSE With(BFS(V, available, {V.initial_state}, {V.initial_state}),
           LAMBDA seen :
             [V EXCEPT !.reachable = seen,
                       !.has_reachable_terminal =
                           \E e \in Range(V.edges) :
                               /\ e.from_state \in seen
                               /\ Traversable(V, e, available)
                               /\ e.to_state \in Names(V.states)])

compute_reachable_and_terminal_flag(V, available) ==
    IF V.initial_state = None
    THEN [V EXCEPT !.reachable = {}, !.has_reachable_terminal = FALSE]
    ELSE With(BFS(V, available, {V.initial_state}, {V.initial_state}),
           LAMBDA seen :
             [V EXCEPT !.reachable = seen,
                       !.has_reachable_terminal =
                           \E e \in Range(V.edges) :
                               /\ e.from_state \in seen
                               /\ Traversable(V, e, available)
                               /\ e.to_state \in Names(V.states)
                               /\ e.symbol_id \in TerminalsOf(V.states, e.to_state)])

\* _structural_checks going on after the error about the initial state
structural_checks_no_return(V, M) ==
    With([V EXCEPT !.issues = @ \cup
             (IF V.initial_state = None
              THEN {ValidationIssue("error", <<"no initial state">>)}
              ELSE IF V.initial_state \notin Names(V.states)
              THEN {ValidationIssue("error",
                       <<"initial state not found", V.initial_state>>)}
              ELSE {})],
      LAMBDA V1 :
        With(collect_available_and_check_refs(V1, M), LAMBDA V2 :
          With(compute_reachable_and_terminal_flag(V2, V2.available),
            LAMBDA V3 :
              IF V3.has_reachable_terminal THEN V3
              ELSE [V3 EXCEPT !.issues = @ \cup
                       {ValidationIssue("error", <<"no reachable terminal">>)}])))

structural_checks(V, M) ==
    IF V.initial_state = None
    THEN [V EXCEPT !.issues = @ \cup {ValidationIssue("error", <<"no initial state">>)}]
    ELSE IF V.initial_state \notin Names(V.states)
    THEN [V EXCEPT !.issues = @ \cup
              {ValidationIssue("error", <<"initial state not found", V.initial_state>>)}]
    ELSE With([V EXCEPT !.issues = @ \cup
                  {ValidationIssue("error", <<"unknown symbol-id", e.symbol_id>>) :
                      e \in {x \in Range(V.edges) :
                                x.symbol_id \notin DOMAIN V.symbols_by_id}}],
           LAMBDA V1 :
             With(collect_available_and_check_refs(V1, M), LAMBDA V2 :
               With(compute_reachable_and_terminal_flag(V2, V2.available),
                 LAMBDA V3 :
                   IF V3.has_reachable_terminal THEN V3
                   ELSE [V3 EXCEPT !.issues = @ \cup
                            {ValidationIssue("error", <<"no reachable terminal">>)}])))

warn_and_prune_unreachable_states(V, reachable) ==
    IF V.states = <<>> THEN V
    ELSE With(Names(V.states) \ reachable, LAMBDA to_remove :
           IF to_remove = {} THEN V
           ELSE With(SelectSeq(V.edges, LAMBDA e :
                         /\ e.from_state \notin to_remove
                         /\ e.to_state \notin to_remove),
                  LAMBDA kept :
                    [V EXCEPT
                       \* del self.states[name]: the shared dict
                       !.states = SelectSeq(@, LAMBDA st : st.name \notin to_remove),
                       \* self.edges = [...]: a new list, the builder's is untouched
                       !.edges = kept,
                       !.aliased = FALSE,
                       !.issues = @ \cup
                          {ValidationIssue("warning", <<"unreachable state removed", n>>) :
                              n \in to_remove}
                          \cup (IF Len(V.edges) - Len(kept) > 0
                                THEN {ValidationIssue("warning",
                                         <<"pruned edges", Len(V.edges) - Len(kept)>>)}
                                ELSE {})]))

\* incoming[name]: symbol ids of the available non-self-loop edges into name
Incoming(V, available, name) ==
    {e.symbol_id : e \in {x \in Range(V.edges) :
                             /\ x.to_state = name
                             /\ x.from_state # x.to_state
                             /\ Traversable(V, x, available)}}

prune_terminal_only_incoming(V, available) ==
    IF V.states = <<>> \/ V.edges = <<>> THEN V
    ELSE IF V.initial_state = None THEN V
    ELSE With({name \in Names(V.states) :
                  /\ name # V.initial_state
                  /\ \E e \in Range(V.edges) : e.from_state = name
                  /\ With(Incoming(V, available, name), LAMBDA in_syms :
                        /\ in_syms # {}
                        /\ in_syms \subseteq TerminalsOf(V.states, name))},
           LAMBDA to_prune :
             IF to_prune = {} THEN V
             ELSE With(SelectSeq(V.edges, LAMBDA e : e.from_state \notin to_prune),
                    LAMBDA filtered :
                      [V EXCEPT
                         \* self.edges[:] = filtered: in place, on whichever list
                         \* object self.edges names at this point
                         !.edges = filtered,
                         !.b_edges = IF V.aliased THEN filtered ELSE @,
                         !.issues = @ \cup
                            {ValidationIssue("warning", <<"outgoing edges pruned", n>>) :
                                n \in to_prune}]))

post_checks(V) ==
    IF V.states = <<>> THEN V
    ELSE prune_terminal_only_incoming(
             warn_and_prune_unreachable_states(V, V.reachable), V.available)

\* validate() running the post checks whatever the structural checks found
validate_always_pruning(V, M) ==
    post_checks(structural_checks(V, M))

validate(V, M) ==
    With(structural_checks(V, M), LAMBDA V1 :
      IF HasError(V1.issues) THEN V1 ELSE post_checks(V1))

\* _validate raising for the first error only
builder_validate_first_error(B, M) ==
    With(validate(NewValidator(B), M), LAMBDA V :
      [B EXCEPT !.states = V.states,
                !.edges = V.b_edges,
                !.warned = @ \cup {i[2][1] : i \in {x \in V.issues : x[1] = "warning"}},
                !.exc = IF HasError(V.issues) THEN "ValueError" ELSE None,
                !.errors = IF HasError(V.issues)
                           THEN {(CHOOSE x \in V.issues : x[1] = "error")[2]}
                           ELSE {}])

\* _InternalStateMachineBuilder._validate: runs the validator on the
\* builder's own dict and list; raises one ValueError whose message joins
\* the messages of all errors when an error was found.
builder_validate(B, M) ==
    With(validate(NewValidator(B), M), LAMBDA V :
      [B EXCEPT !.states = V.states,
                !.edges = V.b_edges,
                !.warned = @ \cup {i[2][1] : i \in {x \in V.issues : x[1] = "warning"}},
                !.exc = IF HasError(V.issues) THEN "ValueError" ELSE None,
                !.errors = {i[2] : i \in {x \in V.issues : x[1] = "error"}}])

ValidationIssues(B, M) == validate(NewValidator(B), M).issues

(***************************************************************************)
(* StateMachine.__init__ and build()                                       *)
(* A machine value is [initial_state, symbols_by_id, edges]; its           *)
(* _states_by_name is the builder's dict, read from the builder.           *)
(* NoMachine stands for "no machine was constructed".                      *)
(***************************************************************************)

NoMachine == [initial_state |-> None, symbols_by_id |-> <<>>, edges |-> <<>>]

StateMachine(initial_state, sts, symbols, edges) ==
    IF initial_state \notin Names(sts) THEN NoMachine
    ELSE [initial_state |-> initial_state, symbols_by_id |-> symbols,
          edges |-> edges]

\* build(): [b |-> the builder afterwards, sm |-> the machine or None]
build(B, M) ==
    With(complete_reflexive_edges(B), LAMBDA B1 :
      With(IF B1.exc # None THEN B1 ELSE builder_validate(B1, M), LAMBDA B2 :
        IF B2.exc # None THEN [b |-> B2, sm |-> NoMachine]
        ELSE With(StateMachine(IF B2.initial # None THEN B2.initial
                               ELSE B2.states[1].name,
                               B2.states, B2.symbols_by_id, B2.edges),
               LAMBDA machine :
                 [b |-> IF machine = NoMachine
                        THEN [B2 EXCEPT !.exc = "ValueError"] ELSE B2,
                  sm |-> machine])))

(***************************************************************************)
(* Runtime (StateMachine)                                                  *)
(* A is what the machine reads: its q0, Sigma and delta, and the dict of   *)
(* states it shares with the builder.  C holds the cursors:                *)
(* [global, by_session]; by_session[s] = None stands for "no entry for s". *)
(* sid is the ambient session id (_AMBIENT_SESSION_ID), None when unbound. *)
(***************************************************************************)

SessionIds == {"s1", "s2"}

Automaton(machine, B) ==
    [initial_state |-> machine.initial_state, states |-> B.states,
     symbols_by_id |-> machine.symbols_by_id, edges |-> machine.edges]

NewCursors(machine) ==
    [global |-> machine.initial_state, by_session |-> [s \in SessionIds |-> None]]

\* current_state() creating the entry with the session id as its value
setdefault_session_key(A, C, sid) ==
    IF sid = None \/ C.by_session[sid] # None THEN C
    ELSE [C EXCEPT !.by_session[sid] = sid]

\* current_state() assigning q0 to the session's entry on every read
setdefault_assigning(A, C, sid) ==
    IF sid = None THEN C ELSE [C EXCEPT !.by_session[sid] = A.initial_state]

\* The write current_state() makes: setdefault(sid, q0)
setdefault(A, C, sid) ==
    IF sid = None \/ C.by_session[sid] # None THEN C
    ELSE [C EXCEPT !.by_session[sid] = A.initial_state]

\* The value current_state() returns
current_state(A, C, sid) ==
    IF sid = None THEN C.global ELSE setdefault(A, C, sid).by_session[sid]

\* reset that puts the global cursor and every stored session cursor at q0
reset_everyone(A, C, sid) ==
    [global |-> A.initial_state,
     by_session |-> [s \in SessionIds |->
                        IF C.by_session[s] = None /\ s # sid THEN None
                        ELSE A.initial_state]]

\* reset that drops the session's entry instead of writing q0 into it
reset_deleting(A, C, sid) ==
    IF sid = None THEN [C EXCEPT !.global = A.initial_state]
    ELSE [C EXCEPT !.by_session[sid] = None]

reset(A, C, sid) ==
    IF sid = None THEN [C EXCEPT !.global = A.initial_state]
    ELSE [C EXCEPT !.by_session[sid] = A.initial_state]

\* set_current_state without the check of the name
set_current_state_unchecked(A, C, sid, new_state) ==
    [c |-> IF sid = None THEN [C EXCEPT !.global = new_state]
           ELSE [C EXCEPT !.by_session[sid] = new_state],
     exc |-> None]

\* set_current_state writing the global cursor besides the session's
set_current_state_global_too(A, C, sid, new_state) ==
    IF new_state \notin Names(A.states) THEN [c |-> C, exc |-> "ValueError"]
    ELSE [c |-> IF sid = None THEN [C EXCEPT !.global = new_state]
                ELSE [C EXCEPT !.by_session[sid] = new_state,
                               !.global = new_state],
          exc |-> None]

\* set_current_state: [c |-> cursors afterwards, exc |-> exception raised]
set_current_state(A, C, sid, new_state) ==
    IF new_state \notin Names(A.states) THEN [c |-> C, exc |-> "ValueError"]
    ELSE [c |-> IF sid = None THEN [C EXCEPT !.global = new_state]
                ELSE [C EXCEPT !.by_session[sid] = new_state],
          exc |-> None]

NoEdge == Edge(None, None, None, None)

\* get_edge scanning from q0 instead of the current state
get_edge_from_initial(A, C, sid, symbol_id) ==
    With({i \in DOMAIN A.edges :
             /\ A.edges[i].from_state = A.initial_state
             /\ A.edges[i].symbol_id = symbol_id},
         LAMBDA hits :
           IF hits = {} THEN NoEdge
           ELSE A.edges[CHOOSE i \in hits : \A j \in hits : i <= j])

\* get_edge: the first edge of the list leaving the current state on symbol_id
get_edge(A, C, sid, symbol_id) ==
    With({i \in DOMAIN A.edges :
             /\ A.edges[i].from_state = current_state(A, C, sid)
             /\ A.edges[i].symbol_id = symbol_id},
         LAMBDA hits :
           IF hits = {} THEN NoEdge
           ELSE A.edges[CHOOSE i \in hits : \A j \in hits : i <= j])

\* is_terminal answering for the terminals of no state
is_terminal_never(A, C, sid, symbol_id) == [v |-> FALSE, exc |-> None]

\* is_terminal: [v |-> the answer, exc |-> KeyError when the cursor names no state]
is_terminal(A, C, sid, symbol_id) ==
    With(current_state(A, C, sid), LAMBDA sname :
      IF sname \notin Names(A.states) THEN [v |-> FALSE, exc |-> "KeyError"]
      ELSE [v |-> symbol_id \in TerminalsOf(A.states, sname), exc |-> None])

\* results_by_ident of available_symbols, for the state sname
ResultsByIdent(A, sname, kind, ident) ==
    {A.symbols_by_id[e.symbol_id].result :
        e \in {x \in Range(A.edges) :
                  /\ x.from_state = sname
                  /\ x.symbol_id \in DOMAIN A.symbols_by_id
                  /\ A.symbols_by_id[x.symbol_id].kind = kind
                  /\ A.symbols_by_id[x.symbol_id].ident = ident}}

IdentsAt(A, sname, kind) ==
    {A.symbols_by_id[e.symbol_id].ident :
        e \in {x \in Range(A.edges) :
                  /\ x.from_state = sname
                  /\ x.symbol_id \in DOMAIN A.symbols_by_id
                  /\ A.symbols_by_id[x.symbol_id].kind = kind}}

\* available_symbols without the test of the symbol's kind
available_symbols_any_kind(A, sname, kind) ==
    [v |-> {A.symbols_by_id[e.symbol_id].ident :
               e \in {x \in Range(A.edges) :
                         /\ x.from_state = sname
                         /\ x.symbol_id \in DOMAIN A.symbols_by_id}},
     exc |-> None]

\* available_symbols with the current state given: [v |-> idents, exc |-> ...]
available_symbols_at(A, sname, kind) ==
    With(IdentsAt(A, sname, kind), LAMBDA idents :
      IF \A i \in idents : ResultsByIdent(A, sname, kind, i) = {SUCCESS, ERROR}
      THEN [v |-> idents, exc |-> None]
      ELSE [v |-> {}, exc |-> "ValueError"])

available_symbols(A, C, sid, kind) ==
    available_symbols_at(A, current_state(A, C, sid), kind)

\* get_symbols(kind): the symbols of that kind on the edges leaving the
\* current state.  The managers call it; the runtime file does not define it.
get_symbols(A, C, sid, kind) ==
    With(current_state(A, C, sid), LAMBDA sname :
      {A.symbols_by_id[e.symbol_id] :
          e \in {x \in Range(A.edges) :
                    /\ x.from_state = sname
                    /\ x.symbol_id \in DOMAIN A.symbols_by_id
                    /\ A.symbols_by_id[x.symbol_id].kind = kind}})

(***************************************************************************)
(* State-aware managers: _get_and_validate_tool / _prompt / _resource      *)
(***************************************************************************)

\* Is name registered with the native manager of that kind
Resolves(M, kind, name) ==
    IF kind = "tool" THEN name \in M.tools
    ELSE IF kind = "prompt" THEN name \in M.prompts
    ELSE name \in M.resources \cup M.templates

\* The lookup without the test of the current state's symbols
get_and_validate_ungated(M, kind, name, symbols) ==
    IF ~Resolves(M, kind, name) THEN "not registered" ELSE None

\* None when the binding may run, else the reason the call is refused
get_and_validate(M, kind, name, symbols) ==
    With({x \in symbols : x.ident = name}, LAMBDA matching :
      IF matching = {} THEN "not allowed"
      ELSE IF {x.result : x \in matching} # {SUCCESS, ERROR} THEN "inconsistent"
      ELSE IF ~Resolves(M, kind, name) THEN "not registered"
      ELSE None)

(***************************************************************************)
(* TransitionScope                                                         *)
(***************************************************************************)

\* An effect that is not None is a callable whose result may be awaited
IsCallable(effect) == effect # None

\* What a callable effect does once it is called and awaited
EffectOutcomes == {"returns", "raises", "cancelled"}

\* The exception the effect ends with, None when it returns
effect_exception(outcome) ==
    CASE outcome = "returns" -> None
      [] outcome = "raises" -> "Exception"
      [] outcome = "cancelled" -> "CancelledError"

\* The helper without its except clause for asyncio.CancelledError
apply_callback_cancel_uncaught(outcome) ==
    With(effect_exception(outcome), LAMBDA e :
      IF e = "Exception" THEN None ELSE e)

\* apply_callback_with_context on a callable: the exception that leaves it.
\* Both except clauses log and swallow.
apply_callback_with_context(outcome) ==
    With(effect_exception(outcome), LAMBDA e :
      IF e = "CancelledError" THEN None
      ELSE IF e = "Exception" THEN None
      ELSE e)

\* The try / except Exception around the helper in _apply: the exception
\* that leaves _apply
apply_effect(outcome) ==
    With(apply_callback_with_context(outcome), LAMBDA e :
      IF e = "Exception" THEN None ELSE e)

\* _apply that finds the edge and leaves the cursor where it is
apply_without_move(A, C, sid, symbol_id) ==
    With(get_edge(A, C, sid, symbol_id), LAMBDA edge :
      [c |-> setdefault(A, C, sid), edge |-> edge, exc |-> None])

\* _apply up to the call of the effect:
\* [c |-> cursors, edge |-> the edge found or NoEdge, exc |-> exception]
apply(A, C, sid, symbol_id) ==
    With(get_edge(A, C, sid, symbol_id), LAMBDA edge :
      With(setdefault(A, C, sid), LAMBDA C1 :
        IF edge = NoEdge THEN [c |-> C1, edge |-> NoEdge, exc |-> None]
        ELSE With(set_current_state(A, C1, sid, edge.to_state), LAMBDA r :
               [c |-> r.c, edge |-> edge, exc |-> r.exc])))

\* __aexit__ without the reset of step 2
finish_without_reset(A, C, sid, symbol_id, exc_type) ==
    With(setdefault(A, C, sid), LAMBDA C1 :
      With(is_terminal(A, C1, sid, symbol_id), LAMBDA t :
        IF t.exc # None THEN [c |-> C1, raised |-> t.exc]
        ELSE [c |-> C1,
              raised |-> IF exc_type = None THEN None ELSE "mapped"]))

\* __aexit__ returning a value that suppresses the exception
finish_suppressing(A, C, sid, symbol_id, exc_type) ==
    With(setdefault(A, C, sid), LAMBDA C1 :
      With(is_terminal(A, C1, sid, symbol_id), LAMBDA t :
        IF t.exc # None THEN [c |-> C1, raised |-> t.exc]
        ELSE [c |-> IF t.v THEN reset(A, C1, sid) ELSE C1,
              raised |-> None]))

\* __aexit__ after _apply: terminal check, reset, mapped error.
\* [c |-> cursors, raised |-> what the scope exit raises, None if nothing]
finish(A, C, sid, symbol_id, exc_type) ==
    With(setdefault(A, C, sid), LAMBDA C1 :
      With(is_terminal(A, C1, sid, symbol_id), LAMBDA t :
        IF t.exc # None THEN [c |-> C1, raised |-> t.exc]
        ELSE [c |-> IF t.v THEN reset(A, C1, sid) ELSE C1,
              raised |-> IF exc_type = None THEN None ELSE "mapped"]))

(***************************************************************************)
(* Declaration phase: the calls a server script makes before run()         *)
(***************************************************************************)

\* Bounds: the number of declaration calls of a script over three state
\* names and one binding, and of a script over two state names and two bindings
MaxCalls == 4
MaxCallsWide == 3

Registered == [tools |-> {"login"}, prompts |-> {"menu"}, resources |-> {}, templates |-> {}]

PromptMissing == [tools |-> {"login"}, prompts |-> {}, resources |-> {}, templates |-> {}]

\* What a server script declares with: state names, (kind, ident) bindings,
\* effects, the number of calls it makes, and the registries it runs against.
Scripts ==
    {[names |-> {"start", "home", "aux"}, bindings |-> {<<"tool", "login">>},
      effects |-> {None}, max_calls |-> MaxCalls, managers |-> Registered]}
    \cup
    {[names |-> {"start", "home"},
      bindings |-> {<<"tool", "login">>, <<"prompt", "menu">>},
      effects |-> {None, "eff"}, max_calls |-> MaxCallsWide, managers |-> m] :
        m \in {Registered, PromptMissing}}

SymbolsOf(bindings) ==
    {InputSymbol(b[1], b[2], r) : b \in bindings, r \in {SUCCESS, ERROR}}

\* A call starts with no exception pending
Called(B) == [B EXCEPT !.exc = None, !.warned = {}, !.errors = {}]

\* One declaration call of a script, applied to the builder
ApplyCall(B, c) ==
    IF c.op = "add_state" THEN add_state(B, c.name, c.is_initial)
    ELSE IF c.op = "on_success"
    THEN on_success(B, c.kind, c.from_state, c.name, c.to_state, c.terminal, c.effect)
    ELSE on_error(B, c.kind, c.from_state, c.name, c.to_state, c.terminal, c.effect)

RECURSIVE RunScript(_, _)
RunScript(B, cs) ==
    IF cs = <<>> THEN B ELSE RunScript(ApplyCall(Called(B), Head(cs)), Tail(cs))

DefineState(name, is_initial) ==
    [op |-> "add_state", name |-> name, is_initial |-> is_initial]

OnTool(op, from_state, name, to_state, terminal, effect) ==
    [op |-> op, kind |-> "tool", from_state |-> from_state, name |-> name,
     to_state |-> to_state, terminal |-> terminal, effect |-> effect]

OnPrompt(op, from_state, name, to_state, terminal, effect) ==
    [op |-> op, kind |-> "prompt", from_state |-> from_state, name |-> name,
     to_state |-> to_state, terminal |-> terminal, effect |-> effect]

\* The login scenario: q0 = start, login success -> home (terminal),
\* login error -> start
LoginScript ==
    <<DefineState("start", TRUE),
      OnTool("on_success", "start", "login", "home", TRUE, None),
      OnTool("on_error", "start", "login", "start", FALSE, None)>>

\* Two bindings in two states, effects on both declared edges; the error
\* outcomes are left to reflexive completion
TwoStepScript ==
    <<DefineState("start", TRUE),
      OnTool("on_success", "start", "login", "home", FALSE, "eff"),
      OnPrompt("on_success", "home", "menu", "start", TRUE, "eff")>>

\* home is entered by a terminal edge only: its outgoing edge is pruned
TerminalOnlyScript ==
    <<DefineState("start", TRUE),
      OnTool("on_success", "start", "login", "home", TRUE, "eff"),
      OnPrompt("on_success", "home", "menu", "start", FALSE, None)>>

\* aux is declared with an edge but cannot be reached
UnreachableScript ==
    <<DefineState("start", TRUE),
      OnTool("on_success", "start", "login", "start", TRUE, None),
      DefineState("aux", FALSE),
      OnTool("on_error", "aux", "login", "start", FALSE, None)>>

\* A terminal error outcome, and a state whose success outcome is terminal
ErrorTerminalScript ==
    <<DefineState("start", TRUE),
      OnTool("on_success", "start", "login", "home", FALSE, None),
      OnTool("on_error", "start", "login", "home", TRUE, "eff"),
      OnTool("on_success", "home", "login", "start", TRUE, None)>>

\* Three states in a chain: home is entered by a terminal edge with an
\* effect and by a plain edge, and has an edge of its own
ChainScript ==
    <<DefineState("start", TRUE),
      OnTool("on_success", "start", "login", "home", TRUE, "eff"),
      OnTool("on_error", "start", "login", "home", FALSE, None),
      OnTool("on_success", "home", "login", "aux", FALSE, None)>>

RunScripts ==
    {LoginScript, TwoStepScript, TerminalOnlyScript, UnreachableScript,
     ErrorTerminalScript, ChainScript}

\* The requests clients send: (kind, identifier)
Requests == {<<"tool", "login">>, <<"prompt", "menu">>, <<"tool", "menu">>}

Tasks == {"t1", "t2"}

Ambient == SessionIds \cup {None}

\* The session ids the requests of a task carry.  Tasks and session ids are
\* interchangeable, so one task is given representatives only: the pairs
\* cover same session, different sessions, session and global, both global.
SessionsOf(t) == IF t = "t1" THEN {"s1", None} ELSE Ambient

\* A request task that is not running
Idle ==
    [pc |-> "idle", session |-> None, kind |-> None,
     ident |-> None, exc_type |-> None, symbol_id |-> None, pre |-> None,
     fired |-> NoEdge, post |-> None, raised |-> None, ran |-> FALSE,
     disturbed |-> FALSE, effect_outcome |-> None, scopes |-> <<>>,
     \* the request context, the number of effect invocations of the scope
     \* and the context handed to the effect
     ctx |-> None, effect_calls |-> 0, effect_ctx |-> None]

\* Bound: the number of SessionScopes a task nests
MaxDepth == 3

\* SessionScope.__exit__ dropping its token without the reset
SessionScope_exit_unrestored(T) ==
    [T EXCEPT !.scopes = SubSeq(@, 1, Len(@) - 1)]

\* SessionScope.__enter__ in the context of task record T: the ContextVar is
\* set and the token, which holds the value before, is kept in the scope
SessionScope_enter(T, session_id) ==
    [T EXCEPT !.scopes = Append(@, [session_id |-> session_id, token |-> T.session]),
              !.session = session_id]

\* SessionScope.__exit__: the ContextVar is reset to the token's value
SessionScope_exit(T) ==
    [T EXCEPT !.session = T.scopes[Len(T.scopes)].token,
              !.scopes = SubSeq(@, 1, Len(@) - 1)]

VARIABLES
    cursors,     \* StateMachine._current_global and _current_by_session_id
    tasks,       \* the request tasks: position, ambient session, outcome
    script,      \* the alphabet of the server script (one of Scripts)
    builder,     \* the _InternalStateMachineBuilder
    managers,    \* the native tool / prompt / resource managers
    sm,          \* StatefulMCP._state_machine (NoMachine before run())
    phase,       \* "declare", "built", "rebuilt", "amended" or "failed"
    calls        \* number of declaration calls made

vars == <<script, builder, managers, sm, phase, calls, cursors, tasks>>

Init ==
    /\ script \in Scripts
    /\ builder = NewBuilder
    /\ managers = script.managers
    /\ sm = NoMachine
    /\ phase = "declare"
    /\ calls = 0
    /\ cursors = NewCursors(NoMachine)
    /\ tasks = [t \in Tasks |-> Idle]

Declare(B) ==
    /\ phase = "declare"
    /\ calls < script.max_calls
    /\ builder' = B
    /\ calls' = calls + 1
    /\ UNCHANGED <<script, managers, sm, phase, cursors, tasks>>

AddState ==
    \E name \in script.names, is_initial \in BOOLEAN :
        Declare(add_state(Called(builder), name, is_initial))

AddEdge ==
    \E f \in script.names, t \in script.names,
       sym \in SymbolsOf(script.bindings), eff \in script.effects :
        Declare(add_edge(Called(builder), f, t, sym, eff))

AddTerminal ==
    \E st \in script.names, sym \in SymbolsOf(script.bindings) :
        Declare(add_terminal(Called(builder), st, sym))

OnSuccess ==
    \E f \in script.names, t \in script.names, b \in script.bindings,
       terminal \in BOOLEAN, eff \in script.effects :
        Declare(on_success(Called(builder), b[1], f, b[2], t, terminal, eff))

OnError ==
    \E f \in script.names, t \in script.names, b \in script.bindings,
       terminal \in BOOLEAN, eff \in script.effects :
        Declare(on_error(Called(builder), b[1], f, b[2], t, terminal, eff))

\* StatefulMCP._build_state_machine
Build ==
    /\ phase = "declare"
    /\ With(build(Called(builder), managers), LAMBDA r :
          /\ builder' = r.b
          /\ sm' = r.sm
          /\ phase' = IF r.b.exc = None THEN "built" ELSE "failed"
          /\ cursors' = NewCursors(r.sm))
    /\ UNCHANGED <<script, managers, calls, tasks>>

\* A second builder.build() on the builder the first build() left behind
BuildAgain ==
    /\ phase = "built"
    /\ With(build(Called(builder), managers), LAMBDA r :
          /\ builder' = r.b
          /\ sm' = r.sm
          /\ phase' = IF r.b.exc = None THEN "rebuilt" ELSE "failed"
          /\ cursors' = NewCursors(r.sm))
    /\ UNCHANGED <<script, managers, calls, tasks>>

\* A declaration call made on the builder after build() returned; the
\* automaton keeps the machine build() constructed
DeclareLate(B) ==
    /\ phase = "built"
    /\ builder' = B
    /\ phase' = "amended"
    /\ UNCHANGED <<script, managers, sm, calls, cursors, tasks>>

LateAddState ==
    \E name \in script.names, is_initial \in BOOLEAN :
        DeclareLate(add_state(Called(builder), name, is_initial))

LateAddEdge ==
    \E f \in script.names, t \in script.names,
       sym \in SymbolsOf(script.bindings), eff \in script.effects :
        DeclareLate(add_edge(Called(builder), f, t, sym, eff))

LateAddTerminal ==
    \E st \in script.names, sym \in SymbolsOf(script.bindings) :
        DeclareLate(add_terminal(Called(builder), st, sym))

Next ==
    \/ AddState
    \/ AddEdge
    \/ AddTerminal
    \/ OnSuccess
    \/ OnError
    \/ Build
    \/ BuildAgain
    \/ LateAddState
    \/ LateAddEdge
    \/ LateAddTerminal

(***************************************************************************)
(* Serving phase: request tasks on the event loop.  A task runs without    *)
(* interruption between two awaits; the awaits are the wrapped operation   *)
(* and an edge's effect.                                                   *)
(***************************************************************************)

TheAutomaton == Automaton(sm, builder)

InFlight(t) == tasks[t].pc \in {"running", "effect"}

\* A task that reached "done" hands its result to the caller before the
\* event loop runs anything else (the hand-over touches no shared state).
Handed == \A u \in Tasks : tasks[u].pc # "done"

\* The other tasks in flight on session sid see an operation of somebody
\* else on their cursor
Disturb(T, t, sid) ==
    [u \in Tasks |->
        IF u # t /\ T[u].pc \in {"running", "effect"} /\ T[u].session = sid
        THEN [T[u] EXCEPT !.disturbed = TRUE]
        ELSE T[u]]

Overlaps(t, sid) == \E u \in Tasks \ {t} : InFlight(u) /\ tasks[u].session = sid

\* call_tool / get_prompt / read_resource up to the await of the operation
CallManager(t, sid, kind, ident) ==
    /\ phase = "built"
    /\ Handed
    /\ tasks[t].pc = "idle"
    /\ With(TheAutomaton, LAMBDA A :
         With(get_and_validate(managers, kind, ident,
                               get_symbols(A, cursors, sid, kind)),
           LAMBDA refused :
             With(current_state(A, cursors, sid), LAMBDA here :
               /\ cursors' = setdefault(A, cursors, sid)
               /\ tasks' = [Disturb(tasks, t, sid) EXCEPT ![t] =
                     IF refused # None
                     THEN [SessionScope_enter(Idle, sid) EXCEPT !.pc = "done",
                               !.kind = kind, !.ident = ident,
                               !.pre = here, !.post = here, !.raised = refused]
                     ELSE [SessionScope_enter(Idle, sid) EXCEPT !.pc = "running",
                               !.ctx = t,
                               !.kind = kind, !.ident = ident,
                               !.ran = TRUE, !.disturbed = Overlaps(t, sid)]])))
    /\ UNCHANGED <<script, builder, managers, sm, phase, calls>>

\* async with sm.step(kind=..., ident=...) under SessionScope(sid), not gated
StepDirect(t, sid, kind, ident) ==
    /\ phase = "built"
    /\ Handed
    /\ tasks[t].pc = "idle"
    /\ tasks' = [Disturb(tasks, t, sid) EXCEPT ![t] =
                    [SessionScope_enter(Idle, sid) EXCEPT !.pc = "running",
                        !.ctx = t,
                        !.kind = kind, !.ident = ident,
                        !.ran = TRUE, !.disturbed = Overlaps(t, sid)]]
    /\ UNCHANGED <<script, builder, managers, sm, phase, calls, cursors>>

\* apply_callback_with_context(edge.effect, self._ctx) up to its await: the
\* effect is called once with the scope's context
invoke_effect(T) ==
    [T EXCEPT !.pc = "effect", !.effect_calls = @ + 1, !.effect_ctx = T.ctx]

\* The rest of __aexit__ for task t, from cursors C
Finished(t, T, C) ==
    With(TheAutomaton, LAMBDA A :
      With(finish(A, C, T[t].session, T[t].symbol_id, T[t].exc_type), LAMBDA r :
        /\ cursors' = r.c
        /\ tasks' = [T EXCEPT ![t].pc = "done", ![t].raised = r.raised,
                        ![t].post = current_state(A, r.c, T[t].session)]))

\* The operation returns (exc_type = None) or raises: __aexit__ up to the
\* await of the effect, or to its end when nothing is awaited
ScopeExit(t, exc_type) ==
    /\ Handed
    /\ tasks[t].pc = "running"
    /\ With(TheAutomaton, LAMBDA A :
         With(tasks[t].session, LAMBDA sid :
           With(make_id(tasks[t].kind, tasks[t].ident,
                        IF exc_type = None THEN SUCCESS ELSE ERROR),
             LAMBDA symbol_id :
               With(apply(A, cursors, sid, symbol_id), LAMBDA a :
                 With([Disturb(tasks, t, sid) EXCEPT
                          ![t].exc_type = exc_type, ![t].symbol_id = symbol_id,
                          ![t].pre = current_state(A, cursors, sid),
                          ![t].fired = a.edge],
                   LAMBDA T1 :
                     IF a.exc # None
                     THEN /\ cursors' = a.c
                          /\ tasks' = [T1 EXCEPT ![t].pc = "done",
                                          ![t].raised = a.exc,
                                          ![t].post = current_state(A, a.c, sid)]
                     ELSE IF a.edge # NoEdge /\ IsCallable(a.edge.effect)
                     THEN /\ cursors' = a.c
                          /\ tasks' = [T1 EXCEPT ![t] = invoke_effect(@)]
                     ELSE Finished(t, T1, a.c))))))
    /\ UNCHANGED <<script, builder, managers, sm, phase, calls>>

OpReturns(t) == ScopeExit(t, None)

OpRaises(t) == ScopeExit(t, "error")

\* The awaited effect returns, raises or is cancelled: __aexit__ resumes at
\* the terminal check unless an exception leaves _apply
EffectEnds(t, outcome) ==
    /\ Handed
    /\ tasks[t].pc = "effect"
    /\ With(apply_effect(outcome), LAMBDA e :
         With([Disturb(tasks, t, tasks[t].session) EXCEPT
                  ![t].effect_outcome = outcome],
           LAMBDA T1 :
             IF e # None
             THEN /\ cursors' = cursors
                  /\ tasks' = [T1 EXCEPT ![t].pc = "done", ![t].raised = e,
                                  ![t].post = current_state(TheAutomaton, cursors,
                                                            T1[t].session)]
             ELSE Finished(t, T1, cursors)))
    /\ UNCHANGED <<script, builder, managers, sm, phase, calls>>

EffectDone(t) == \E outcome \in EffectOutcomes : EffectEnds(t, outcome)

\* The SessionScope of the request exits and the caller has its result or
\* its exception
Return(t) ==
    /\ tasks[t].pc = "done"
    /\ tasks' = [tasks EXCEPT ![t] =
                    With(SessionScope_exit(tasks[t]), LAMBDA T :
                      [Idle EXCEPT !.session = T.session, !.scopes = T.scopes])]
    /\ UNCHANGED <<script, builder, managers, sm, phase, calls, cursors>>

\* sm.reset() under SessionScope(sid)
Reset(sid) ==
    /\ phase = "built"
    /\ Handed
    /\ cursors' = reset(TheAutomaton, cursors, sid)
    /\ tasks' = Disturb(tasks, None, sid)
    /\ UNCHANGED <<script, builder, managers, sm, phase, calls>>

\* sm.set_current_state(name) under SessionScope(sid)
SetCurrentState(sid, name) ==
    /\ phase = "built"
    /\ Handed
    /\ cursors' = set_current_state(TheAutomaton, cursors, sid, name).c
    /\ tasks' = Disturb(tasks, None, sid)
    /\ UNCHANGED <<script, builder, managers, sm, phase, calls>>

Serve ==
    \E t \in Tasks :
        \/ \E sid \in SessionsOf(t), r \in Requests : CallManager(t, sid, r[1], r[2])
        \/ \E sid \in SessionsOf(t), r \in script.bindings : StepDirect(t, sid, r[1], r[2])
        \/ OpReturns(t)
        \/ OpRaises(t)
        \/ EffectDone(t)
        \/ Return(t)

Administer ==
    \/ \E sid \in Ambient : Reset(sid)
    \/ \E sid \in Ambient, name \in script.names : SetCurrentState(sid, name)

\* A server whose script was one of RunScripts, after run() built the machine
InitServing ==
    /\ script = [names |-> {"start", "home", "aux"},
                 bindings |-> {<<"tool", "login">>, <<"prompt", "menu">>},
                 effects |-> {None, "eff"}, max_calls |-> MaxCalls,
                 managers |-> Registered]
    /\ managers = Registered
    /\ \E cs \in RunScripts :
          With(build(Called(RunScript(NewBuilder, cs)), managers), LAMBDA r :
            /\ r.b.exc = None
            /\ builder = r.b
            /\ sm = r.sm
            /\ calls = Len(cs)
            /\ cursors = NewCursors(r.sm))
    /\ phase = "built"
    /\ tasks = [t \in Tasks |-> Idle]

NextServing == Serve \/ Administer

\* The login scenario: a server that declared LoginScript and serves login
InitLogin ==
    /\ script = [names |-> {"start", "home"},
                 bindings |-> {<<"tool", "login">>},
                 effects |-> {None}, max_calls |-> Len(LoginScript),
                 managers |-> Registered]
    /\ managers = Registered
    /\ With(build(Called(RunScript(NewBuilder, LoginScript)), managers), LAMBDA r :
          /\ builder = r.b
          /\ sm = r.sm
          /\ cursors = NewCursors(r.sm))
    /\ calls = Len(LoginScript)
    /\ phase = "built"
    /\ tasks = [t \in Tasks |-> Idle]

NextLogin ==
    \E t \in Tasks :
        \/ \E sid \in SessionsOf(t) : CallManager(t, sid, "tool", "login")
        \/ \E sid \in SessionsOf(t) : StepDirect(t, sid, "tool", "login")
        \/ OpReturns(t)
        \/ OpRaises(t)
        \/ Return(t)

\* login succeeds into home from two states: from start the outcome is
\* declared with terminal=False, from aux with terminal=True
SharedTargetScript ==
    <<DefineState("start", TRUE),
      OnTool("on_success", "start", "login", "home", FALSE, None),
      OnTool("on_error", "start", "login", "aux", FALSE, None),
      OnTool("on_success", "aux", "login", "home", TRUE, None)>>

\* A server that declared SharedTargetScript and serves login
InitShared ==
    /\ script = [names |-> {"start", "home", "aux"},
                 bindings |-> {<<"tool", "login">>},
                 effects |-> {None}, max_calls |-> Len(SharedTargetScript),
                 managers |-> Registered, declared |-> SharedTargetScript]
    /\ managers = Registered
    /\ With(build(Called(RunScript(NewBuilder, SharedTargetScript)), managers),
            LAMBDA r :
              /\ builder = r.b
              /\ sm = r.sm
              /\ cursors = NewCursors(r.sm))
    /\ calls = Len(SharedTargetScript)
    /\ phase = "built"
    /\ tasks = [t \in Tasks |-> Idle]

\* A task enters a SessionScope, at top level or inside another one
EnterScope(t, session_id) ==
    /\ Len(tasks[t].scopes) < MaxDepth
    /\ tasks' = [tasks EXCEPT ![t] = SessionScope_enter(@, session_id)]
    /\ UNCHANGED <<script, builder, managers, sm, phase, calls, cursors>>

\* The body of the innermost scope of a task ends, normally or by raising
ExitScope(t, exc_type) ==
    /\ tasks[t].scopes # <<>>
    /\ tasks' = [tasks EXCEPT ![t] =
                    [SessionScope_exit(@) EXCEPT !.exc_type = exc_type]]
    /\ UNCHANGED <<script, builder, managers, sm, phase, calls, cursors>>

NextScoping ==
    \E t \in Tasks :
        \/ \E session_id \in Ambient : EnterScope(t, session_id)
        \/ \E exc_type \in {None, "error"} : ExitScope(t, exc_type)

\* A server driven through the state-aware managers only
NextManaged ==
    \E t \in Tasks :
        \/ \E sid \in SessionsOf(t), r \in Requests : CallManager(t, sid, r[1], r[2])
        \/ OpReturns(t)
        \/ OpRaises(t)
        \/ EffectDone(t)
        \/ Return(t)

(***************************************************************************)
(* Declaration sets: a server script given as the set of its add_state /   *)
(* add_edge / add_terminal calls, made in any order.                       *)
(***************************************************************************)

\* Bound: the number of calls of a declaration set
MaxDecls == 5

NoSymbol == InputSymbol(None, None, None)

\* One call on the builder
Declaration(op, name, to_state, symbol, is_initial) ==
    [op |-> op, name |-> name, to_state |-> to_state, symbol |-> symbol,
     is_initial |-> is_initial]

DeclNames == {"start", "home"}

DeclarationCalls ==
    {Declaration("add_state", n, None, NoSymbol, i) :
        n \in DeclNames, i \in BOOLEAN}
    \cup
    {Declaration("add_edge", f, t, sym, FALSE) :
        f \in DeclNames, t \in DeclNames, sym \in SymbolsOf({<<"tool", "login">>})}
    \cup
    {Declaration("add_terminal", n, None, sym, FALSE) :
        n \in DeclNames, sym \in SymbolsOf({<<"tool", "login">>})}

\* One explicit initial state, and no two edges for a (from_state, symbol)
ConflictFree(D) ==
    /\ Cardinality({c \in D : c.op = "add_state" /\ c.is_initial}) = 1
    /\ \A c \in D, d \in D :
          (/\ c.op = "add_edge" /\ d.op = "add_edge"
           /\ c.name = d.name /\ c.symbol = d.symbol) => c = d

DeclarationSets ==
    {D \in SUBSET DeclarationCalls : Cardinality(D) <= MaxDecls /\ ConflictFree(D)}

ApplyDeclaration(B, c) ==
    IF c.op = "add_state" THEN add_state(B, c.name, c.is_initial)
    ELSE IF c.op = "add_edge" THEN add_edge(B, c.name, c.to_state, c.symbol, None)
    ELSE add_terminal(B, c.name, c.symbol)

\* The calls of a sequence made one after the other, up to the first that raises
RECURSIVE RunDeclarations(_, _)
RunDeclarations(B, ds) ==
    IF ds = <<>> THEN B
    ELSE With(ApplyDeclaration(Called(B), Head(ds)), LAMBDA B1 :
           IF B1.exc # None THEN B1 ELSE RunDeclarations(B1, Tail(ds)))

InitOrdering ==
    /\ script \in {[names |-> DeclNames, bindings |-> {<<"tool", "login">>},
                     effects |-> {None}, max_calls |-> MaxDecls,
                     managers |-> Registered, decls |-> D, pending |-> D] :
                       D \in DeclarationSets}
    /\ builder = NewBuilder
    /\ managers = script.managers
    /\ sm = NoMachine
    /\ phase = "declare"
    /\ calls = 0
    /\ cursors = NewCursors(NoMachine)
    /\ tasks = [t \in Tasks |-> Idle]

\* The script makes one of the calls it has not made yet; a call that
\* raises ends the script
DeclareNext ==
    /\ phase = "declare"
    /\ \E c \in script.pending :
          With(ApplyDeclaration(Called(builder), c), LAMBDA B :
            /\ builder' = B
            /\ script' = [script EXCEPT !.pending = @ \ {c}]
            /\ phase' = IF B.exc # None THEN "failed" ELSE phase)
    /\ calls' = calls + 1
    /\ UNCHANGED <<managers, sm, cursors, tasks>>

\* run() once the script has made all its calls
BuildDeclared ==
    /\ script.pending = {}
    /\ Build

NextOrdering ==
    \/ DeclareNext
    \/ BuildDeclared

Ordering == InitOrdering /\ [][NextOrdering]_vars

Spec == Init /\ [][Next]_vars

Managed == InitServing /\ [][NextManaged]_vars

Scoping == InitLogin /\ [][NextScoping]_vars

Serving == InitServing /\ [][NextServing]_vars

LoginServing == InitLogin /\ [][NextLogin]_vars

SharedServing == InitShared /\ [][NextLogin]_vars

(***************************************************************************)
(* Properties                                                              *)
(***************************************************************************)

Built == phase = "built"

Q == Names(builder.states)

Other(result) == IF result = SUCCESS THEN ERROR ELSE SUCCESS

\* The edges of a list that leave state S on the symbol (kind, ident, result)
EdgesOn(edges, S, kind, ident, result) ==
    {i \in DOMAIN edges :
        /\ edges[i].from_state = S
        /\ edges[i].symbol_id = make_id(kind, ident, result)}

\* C1: in a built automaton every binding (kind, ident) that has an edge from
\* a state S of Q for one outcome has an edge from S for the other outcome
\* too, and available_symbols(kind) raises in no state of Q.
C1_ReflexiveCompletion ==
    Built =>
        \A S \in Q :
            /\ \A i \in DOMAIN sm.edges :
                  sm.edges[i].from_state = S =>
                      LET sym == sm.symbols_by_id[sm.edges[i].symbol_id]
                      IN  EdgesOn(sm.edges, S, sym.kind, sym.ident,
                                  Other(sym.result)) # {}
            /\ \A kind \in RESULT_FACTORIES :
                  available_symbols_at(TheAutomaton, S, kind).exc = None

\* A build that had to complete a binding and then succeeded
C1_Witness ==
    /\ Built
    /\ "reflexive completion" \in builder.warned
    /\ \E S \in Q : available_symbols_at(TheAutomaton, S, "tool").v # {}

Deterministic(edges) ==
    \A i, j \in DOMAIN edges :
        (/\ edges[i].from_state = edges[j].from_state
         /\ edges[i].symbol_id = edges[j].symbol_id) => i = j

\* C2: after any sequence of declaration calls, and in the automaton build()
\* produces, there is at most one edge for each (from_state, symbol_id).
C2_Determinism ==
    /\ Deterministic(builder.edges)
    /\ Built => Deterministic(sm.edges)

\* A second edge for a (from_state, symbol_id) pair was just refused
C2_Witness ==
    /\ builder.warned \cap {"ambiguous edge", "edge already exists"} # {}
    /\ Len(builder.edges) >= 2

\* A task whose step scope has just exited: the operation ran to its end
Exited(t) == tasks[t].pc = "done" /\ tasks[t].ran

\* The edges of delta that leave S on a symbol id
DeltaFrom(S, symbol_id) ==
    {i \in DOMAIN sm.edges :
        /\ sm.edges[i].from_state = S
        /\ sm.edges[i].symbol_id = symbol_id}

\* The cursor after the edge to T on symbol_id was applied and checked
Landing(T, symbol_id) ==
    IF symbol_id \in TerminalsOf(builder.states, T)
    THEN sm.initial_state ELSE T

CursorOf(C, sid) == IF sid = None THEN C.global ELSE C.by_session[sid]

\* C3: when a step scope that nobody else's operation on the session
\* overlapped exits normally with the cursor at S and delta has the edge
\* (S, SUCCESS symbol) -> T, the cursor after the exit is T if the symbol is
\* not terminal for T and q0 if it is.
C3_RoundTrip ==
    \A t \in Tasks :
        (Exited(t) /\ tasks[t].exc_type = None /\ ~tasks[t].disturbed) =>
            \A i \in DeltaFrom(tasks[t].pre,
                               make_id(tasks[t].kind, tasks[t].ident, SUCCESS)) :
                /\ tasks[t].post = Landing(sm.edges[i].to_state, sm.edges[i].symbol_id)
                /\ CursorOf(cursors, tasks[t].session) = tasks[t].post

\* A normal exit that moved the cursor to a terminal target and reset it
C3_Witness ==
    \E t \in Tasks :
        /\ Exited(t) /\ tasks[t].exc_type = None /\ ~tasks[t].disturbed
        /\ tasks[t].fired # NoEdge
        /\ tasks[t].fired.to_state # sm.initial_state
        /\ tasks[t].symbol_id \in TerminalsOf(builder.states, tasks[t].fired.to_state)
        /\ tasks[t].post = sm.initial_state

C5_LoginScenario ==
    /\ \A sid \in Ambient : CursorOf(cursors, sid) \in {None, "start"}
    /\ \A t \in Tasks :
          Exited(t) =>
              /\ tasks[t].post = "start"
              /\ tasks[t].exc_type # None => tasks[t].raised = "mapped"
    /\ \A sid \in Ambient :
          /\ available_symbols(TheAutomaton, cursors, sid, "tool")
                = available_symbols_at(TheAutomaton, "start", "tool")
          /\ available_symbols(TheAutomaton, cursors, sid, "tool").v = {"login"}

\* A succeeding login: the edge to "home" fired and the cursor is "start"
C5_Witness ==
    \E t \in Tasks :
        /\ Exited(t) /\ tasks[t].exc_type = None
        /\ tasks[t].fired.to_state = "home"
        /\ tasks[t].post = "start"
        /\ sm.initial_state = "start"

\* A step of an operation performed with sid ambient
ActsWith(sid) ==
    \/ \E t \in Tasks :
          \/ \E r \in Requests : CallManager(t, sid, r[1], r[2])
          \/ \E r \in Requests : StepDirect(t, sid, r[1], r[2])
          \/ tasks[t].session = sid /\ (OpReturns(t) \/ OpRaises(t) \/ EffectDone(t))
    \/ Reset(sid)
    \/ \E name \in script.names : SetCurrentState(sid, name)

\* C6: a step of an operation performed with one session id ambient changes
\* the cursor of no other session id; the cursor of a session changes only
\* in steps of operations performed with that session ambient.
C6_SessionIsolation ==
    [][ /\ \A sid \in Ambient :
              ActsWith(sid) =>
                  \A s \in SessionIds \ {sid} :
                      cursors'.by_session[s] = cursors.by_session[s]
        /\ \A s \in SessionIds :
              cursors'.by_session[s] # cursors.by_session[s] => ActsWith(s)
      ]_vars

\* A scope under s1 moved s1's cursor while s2's cursor stood somewhere else
C6_Witness ==
    \E t \in Tasks :
        /\ Exited(t) /\ tasks[t].session = "s1"
        /\ tasks[t].post # tasks[t].pre
        /\ cursors.by_session["s2"] \notin {None, tasks[t].post, sm.initial_state}

\* No edge of delta leaves S on an outcome of (kind, ident)
NoEdgeFrom(S, kind, ident) ==
    /\ DeltaFrom(S, make_id(kind, ident, SUCCESS)) = {}
    /\ DeltaFrom(S, make_id(kind, ident, ERROR)) = {}

\* C7: a manager call for an identifier with no edge from the session's
\* current state is rejected before the operation runs: the operation is not
\* executed, no transition fires and no cursor changes its state.
C7_Gating ==
    [][ \A t \in Tasks, sid \in Ambient, r \in Requests :
           (/\ CallManager(t, sid, r[1], r[2])
            /\ NoEdgeFrom(current_state(TheAutomaton, cursors, sid), r[1], r[2]))
           => /\ tasks'[t].pc = "done"
              /\ ~tasks'[t].ran
              /\ tasks'[t].raised = "not allowed"
              /\ tasks'[t].fired = NoEdge
              /\ \A s \in Ambient :
                    current_state(TheAutomaton, cursors', s)
                        = current_state(TheAutomaton, cursors, s)
      ]_vars

\* A call refused for an identifier that is bound in another state
C7_Witness ==
    \E t \in Tasks :
        /\ tasks[t].pc = "done" /\ ~tasks[t].ran
        /\ tasks[t].raised = "not allowed"
        /\ tasks[t].post = tasks[t].pre
        /\ \E i \in DOMAIN sm.edges :
              sm.edges[i].symbol_id = make_id(tasks[t].kind, tasks[t].ident, SUCCESS)

\* C8: after a successful build the states the BFS did not visit are not in
\* Q, and no edge of delta starts or ends at a removed state.
C8_UnreachablePruned ==
    Built =>
        \A i \in DOMAIN sm.edges :
            /\ sm.edges[i].from_state \in Q
            /\ sm.edges[i].to_state \in Q

\* Incoming edges of S in delta that leave a state of Q, self-loops excluded
IncomingOf(S) ==
    {i \in DOMAIN sm.edges :
        /\ sm.edges[i].to_state = S
        /\ sm.edges[i].from_state # S
        /\ sm.edges[i].from_state \in Q}

\* C9: after a successful build, a non-initial state S of Q that is entered
\* only by edges that are terminal for S has no outgoing edge in delta.
C9_TerminalOnlyIncomingPruned ==
    Built =>
        \A S \in Q \ {sm.initial_state} :
            (/\ IncomingOf(S) # {}
             /\ \A i \in IncomingOf(S) :
                   sm.edges[i].symbol_id \in TerminalsOf(builder.states, S))
            => \A i \in DOMAIN sm.edges : sm.edges[i].from_state # S

\* The states a walk along the edges of a list reaches from the states in S
RECURSIVE Reach(_, _)
Reach(edges, S) ==
    LET T == S \cup {edges[i].to_state : i \in {j \in DOMAIN edges :
                                                  edges[j].from_state \in S}}
    IN  IF T = S THEN S ELSE Reach(edges, T)

\* An edge that can be walked to from q0 and is terminal for its target
HasReachableTerminalEdge(edges, sts, q0) ==
    \E i \in DOMAIN edges :
        /\ edges[i].from_state \in Reach(edges, {q0})
        /\ edges[i].symbol_id \in TerminalsOf(sts, edges[i].to_state)

\* C10 as stated: a built automaton has, after both pruning passes, an edge
\* reachable from q0 whose symbol is terminal for its target; declarations
\* whose declared edges include no such edge yield no automaton.
C10_AsStated ==
    /\ Built => HasReachableTerminalEdge(sm.edges, builder.states, sm.initial_state)
    /\ (/\ phase = "declare"
        /\ ~HasReachableTerminalEdge(builder.edges, builder.states, builder.initial))
       => build(Called(builder), managers).sm = NoMachine

\* C10: a built automaton has, after both pruning passes, an edge reachable
\* from q0 whose symbol is terminal for its target; declarations that have no
\* such edge once reflexive completion has added its self-loops yield no
\* automaton.
C10_ReachableTerminal ==
    /\ Built => HasReachableTerminalEdge(sm.edges, builder.states, sm.initial_state)
    /\ LET completed == complete_reflexive_edges(Called(builder))
       IN  (/\ phase = "declare"
            /\ ~HasReachableTerminalEdge(completed.edges, completed.states,
                                         completed.initial))
           => build(Called(builder), managers).sm = NoMachine

\* A build that pruned the outgoing edges of a state and kept a terminal edge
C10_Witness ==
    /\ Built
    /\ "outgoing edges pruned" \in builder.warned
\* C11: a second build() on the same builder returns an automaton with the
\* same set of states, the same set of edges and the same q0 as the automaton
\* the first build() returned.
C11_BuildIdempotent ==
    [][BuildAgain =>
          /\ phase' = "rebuilt"
          /\ Names(builder'.states) = Names(builder.states)
          /\ Range(sm'.edges) = Range(sm.edges)
          /\ sm'.initial_state = sm.initial_state]_vars

\* C12: build() on a declaration set that validates apart from having no
\* state marked is_initial succeeds, and q0 of its automaton is the first
\* declared state.
C12_DefaultInitial ==
    [][(/\ Build
        /\ builder.initial = None
        /\ builder.states # <<>>
        /\ ~HasError(ValidationIssues(
               [complete_reflexive_edges(Called(builder))
                   EXCEPT !.initial = builder.states[1].name], managers)))
       => (phase' = "built" /\ sm'.initial_state = builder.states[1].name)]_vars

\* C13: when the effect of the fired edge raises or is cancelled, the scope
\* exit ends as it does with no effect: it completes at once (the effect is
\* not run again), the cursor of an undisturbed session is at the edge's
\* target, or at q0 when the symbol is terminal there, a normal exit raises
\* nothing and an abnormal exit raises the mapped error only.
C13_EffectFailureSwallowed ==
    [][\A t \in Tasks, o \in {"raises", "cancelled"} :
          EffectEnds(t, o) =>
              /\ tasks'[t].pc = "done"
              /\ tasks'[t].raised =
                     IF tasks[t].exc_type = None THEN None ELSE "mapped"
              /\ ~tasks'[t].disturbed =>
                     tasks'[t].post = Landing(tasks[t].fired.to_state,
                                              tasks[t].symbol_id)]_vars

\* An abnormal exit whose effect was cancelled, on a terminal edge
C13_Witness ==
    \E t \in Tasks :
        /\ Exited(t)
        /\ tasks[t].effect_outcome = "cancelled"
        /\ tasks[t].exc_type # None
        /\ ~tasks[t].disturbed
        /\ tasks[t].symbol_id \in TerminalsOf(builder.states, tasks[t].fired.to_state)
        /\ tasks[t].fired.to_state # sm.initial_state
        /\ tasks[t].post = sm.initial_state

\* C14: when the current state has no edge for the symbol a scope exit
\* selected, the exit leaves the session's cursor where it was and runs no
\* effect; a normal exit raises nothing and an abnormal exit raises the
\* mapped error.
C14_MissingEdgeNoOp ==
    [][\A t \in Tasks, exc_type \in {None, "error"} :
          (/\ ScopeExit(t, exc_type)
           /\ get_edge(TheAutomaton, cursors, tasks[t].session,
                       make_id(tasks[t].kind, tasks[t].ident,
                               IF exc_type = None THEN SUCCESS ELSE ERROR)) = NoEdge)
          => /\ tasks'[t].pc = "done"
             /\ tasks'[t].raised = IF exc_type = None THEN None ELSE "mapped"
             /\ current_state(TheAutomaton, cursors', tasks[t].session)
                   = current_state(TheAutomaton, cursors, tasks[t].session)]_vars

\* C15: every change a transition scope makes to a cursor, whatever other
\* invocations run on the session, goes from the value the cursor had just
\* before the step along an edge of delta for the scope's symbol, or is a
\* reset to q0.
C15_LinearizedUpdate ==
    [][\A t \in Tasks :
          ((\E exc_type \in {None, "error"} : ScopeExit(t, exc_type)) \/ EffectDone(t))
          => \A sid \in Ambient :
                With(current_state(TheAutomaton, cursors, sid), LAMBDA old :
                  With(current_state(TheAutomaton, cursors', sid), LAMBDA new :
                    new # old =>
                       \/ new = sm.initial_state
                       \/ \E i \in DOMAIN sm.edges :
                             /\ sm.edges[i].from_state = old
                             /\ sm.edges[i].to_state = new
                             /\ sm.edges[i].symbol_id = tasks'[t].symbol_id))]_vars

\* A scope exit that fired an edge from a state other than q0 while another
\* invocation was in flight on the same session
C15_Witness ==
    \E t \in Tasks, u \in Tasks :
        /\ u # t
        /\ Exited(t)
        /\ tasks[t].disturbed
        /\ tasks[t].fired # NoEdge
        /\ tasks[t].pre # sm.initial_state
        /\ tasks[t].post # tasks[t].pre
        /\ InFlight(u)
        /\ tasks[u].session = tasks[t].session

\* C16: whenever a scope exit fired an edge to a state T on a symbol that is
\* in T.terminals, the session's cursor is at q0 when that exit completes,
\* whatever other invocations ran on the session meanwhile.
C16_TerminalResetAlways ==
    \A t \in Tasks :
        (/\ Exited(t)
         /\ tasks[t].fired # NoEdge
         /\ tasks[t].symbol_id \in TerminalsOf(builder.states, tasks[t].fired.to_state))
        => tasks[t].post = sm.initial_state

\* An edge from f on symbol_id to a state other than t is declared
Conflicts(f, t, symbol_id) ==
    \E i \in DOMAIN builder.edges :
        /\ builder.edges[i].from_state = f
        /\ builder.edges[i].symbol_id = symbol_id
        /\ builder.edges[i].to_state # t

\* C17: an add_edge(f, t, symbol), direct or through on_success / on_error,
\* made when an edge from f on the same symbol id to another state exists
\* leaves the builder's edges, its set of states and every terminal set as
\* they were.
C17_ConflictingEdgeNoOp ==
    [][\A f \in script.names, t \in script.names, eff \in script.effects :
          /\ \A sym \in SymbolsOf(script.bindings) :
                (/\ Declare(add_edge(Called(builder), f, t, sym, eff))
                 /\ Conflicts(f, t, sym.id))
                => (builder'.edges = builder.edges /\ builder'.states = builder.states)
          /\ \A b \in script.bindings, terminal \in BOOLEAN :
                /\ (/\ Declare(on_success(Called(builder), b[1], f, b[2], t, terminal, eff))
                    /\ Conflicts(f, t, make_id(b[1], b[2], SUCCESS)))
                   => (builder'.edges = builder.edges /\ builder'.states = builder.states)
                /\ (/\ Declare(on_error(Called(builder), b[1], f, b[2], t, terminal, eff))
                    /\ Conflicts(f, t, make_id(b[1], b[2], ERROR)))
                   => (builder'.edges = builder.edges /\ builder'.states = builder.states)]_vars

\* The effect get_edge finds for symbol_id in state f over a list of edges
EffectAt(edges, f, symbol_id) ==
    get_edge([initial_state |-> f, states |-> builder.states,
              symbols_by_id |-> builder.symbols_by_id, edges |-> edges],
             [global |-> f, by_session |-> [x \in SessionIds |-> None]],
             None, symbol_id).effect

\* C18: an add_edge that repeats a declared (from_state, symbol id, to_state)
\* with another effect leaves the edge list as it was, and the effect found
\* for that symbol in that state is still the one declared first.
C18_DuplicateKeepsFirstEffect ==
    [][\A f \in script.names, t \in script.names,
          sym \in SymbolsOf(script.bindings), eff \in script.effects :
          \A i \in DOMAIN builder.edges :
             (/\ Declare(add_edge(Called(builder), f, t, sym, eff))
              /\ builder.edges[i] = Edge(f, t, sym.id, builder.edges[i].effect)
              /\ builder.edges[i].effect # eff)
             => /\ builder'.edges = builder.edges
                /\ EffectAt(builder'.edges, f, sym.id) = builder.edges[i].effect]_vars

\* The only declared edge has no effect and a re-declaration of it with the
\* effect "eff" was just ignored
C18_Witness ==
    /\ "ignored effect eff" \in builder.warned
    /\ Len(builder.edges) = 1
    /\ builder.edges[1].effect = None

\* C19: the ambient session id of every task is the id of the innermost
\* SessionScope that task has open, and None when it has none open: an exit,
\* normal or by an exception, restores what was ambient before the scope was
\* entered, at every nesting depth, and no task sees another task's binding.
C19_ScopedBinding ==
    \A t \in Tasks :
        tasks[t].session =
            IF tasks[t].scopes = <<>> THEN None
            ELSE tasks[t].scopes[Len(tasks[t].scopes)].session_id

\* A task left a nested scope by an exception and is back in its outer
\* scope while the other task is two scopes deep in another session
C19_Witness ==
    \E t \in Tasks, u \in Tasks :
        /\ tasks[t].exc_type = "error"
        /\ Len(tasks[t].scopes) = 1
        /\ tasks[t].session = "s1"
        /\ Len(tasks[u].scopes) = 2
        /\ tasks[u].session = "s2"
        /\ tasks[u].scopes[1].session_id = None

\* C20: set_current_state(name) under the ambient session sid raises and
\* leaves every cursor as it was when name is not a state of the automaton;
\* otherwise it raises nothing, puts the cursor of sid (the global cursor
\* when sid is None) at name and leaves every other cursor as it was.
C20_SetCurrentState ==
    [][\A sid \in Ambient, name \in script.names :
          SetCurrentState(sid, name) =>
              IF name \notin Q
              THEN /\ set_current_state(TheAutomaton, cursors, sid, name).exc
                         = "ValueError"
                   /\ cursors' = cursors
              ELSE /\ set_current_state(TheAutomaton, cursors, sid, name).exc = None
                   /\ CursorOf(cursors', sid) = name
                   /\ \A other \in Ambient \ {sid} :
                         CursorOf(cursors', other) = CursorOf(cursors, other)]_vars

\* The global cursor rests in a state that no transition leaves it in (every
\* edge into it is terminal and no effect is awaited), in an automaton for
\* which the name "aux" is unknown
C20_Witness ==
    /\ cursors.global # sm.initial_state
    /\ \A s \in SessionIds : cursors.by_session[s] = None
    /\ "aux" \notin Q
    /\ \A i \in DOMAIN sm.edges :
          /\ sm.edges[i].effect = None
          /\ sm.edges[i].to_state = cursors.global =>
                sm.edges[i].symbol_id \in TerminalsOf(builder.states, cursors.global)

\* The session ids that have an entry in _current_by_session_id
Entries(C) == {s \in SessionIds : C.by_session[s] # None}

\* A step in which the machine is read or written with sid ambient
Touches(sid) ==
    \/ \E t \in Tasks :
          \/ \E r \in Requests : CallManager(t, sid, r[1], r[2])
          \/ tasks[t].session = sid /\ (OpReturns(t) \/ OpRaises(t) \/ EffectDone(t))
    \/ Reset(sid)
    \/ \E name \in Q : SetCurrentState(sid, name)

\* C21: a read for a session id without an entry returns q0; no step removes
\* an entry of the cursor map; a step that reads or writes the machine with a
\* session id ambient leaves that id with an entry, created at q0 when a read
\* created it, and a step creates no entry for any other id.
C21_CursorLifecycle ==
    [][ /\ \A s \in SessionIds \ Entries(cursors) :
              current_state(TheAutomaton, cursors, s) = sm.initial_state
        /\ Entries(cursors) \subseteq Entries(cursors')
        /\ \A sid \in SessionIds :
              /\ Touches(sid) => Entries(cursors') = Entries(cursors) \cup {sid}
              /\ (sid \in Entries(cursors') \ Entries(cursors)) =>
                    /\ ActsWith(sid)
                    /\ \A t \in Tasks, r \in Requests :
                          CallManager(t, sid, r[1], r[2]) =>
                              cursors'.by_session[sid] = sm.initial_state
        /\ Touches(None) => Entries(cursors') = Entries(cursors)
      ]_vars

\* Both sessions have an entry; s1's is at q0 and s2's is somewhere else
C21_Witness ==
    /\ Entries(cursors) = SessionIds
    /\ cursors.by_session["s1"] = sm.initial_state
    /\ cursors.by_session["s2"] # sm.initial_state

\* C22: an add_state, add_edge or add_terminal call on the builder after
\* build() returned changes neither the set of states the automaton reads,
\* nor the terminal set of any of them, nor the automaton's edges.
C22_AutomatonIndependent ==
    [][(LateAddState \/ LateAddEdge \/ LateAddTerminal) =>
          /\ Automaton(sm', builder').states = Automaton(sm, builder).states
          /\ Automaton(sm', builder').edges = Automaton(sm, builder).edges]_vars

\* The edges of B whose artifact is registered with the managers M
RegisteredEdges(B, M) ==
    SelectSeq(B.edges, LAMBDA e :
        \/ /\ B.symbols_by_id[e.symbol_id].kind = "tool"
           /\ B.symbols_by_id[e.symbol_id].ident \in M.tools
        \/ /\ B.symbols_by_id[e.symbol_id].kind = "prompt"
           /\ B.symbols_by_id[e.symbol_id].ident \in M.prompts)

\* The errors of the classes the validator aggregates, for a builder whose
\* initial state is set
ExpectedErrors(B, M) ==
    {<<"tool not registered", B.symbols_by_id[e.symbol_id].ident>> :
        e \in {x \in Range(B.edges) :
                  /\ B.symbols_by_id[x.symbol_id].kind = "tool"
                  /\ B.symbols_by_id[x.symbol_id].ident \notin M.tools}}
    \cup {<<"prompt not registered", B.symbols_by_id[e.symbol_id].ident>> :
        e \in {x \in Range(B.edges) :
                  /\ B.symbols_by_id[x.symbol_id].kind = "prompt"
                  /\ B.symbols_by_id[x.symbol_id].ident \notin M.prompts}}
    \cup (IF HasReachableTerminalEdge(RegisteredEdges(B, M), B.states, B.initial)
          THEN {} ELSE {<<"no reachable terminal">>})

\* C23: a build() whose validation has two or more errors to report (an
\* unregistered tool or prompt, no reachable terminal) raises one ValueError
\* that lists every one of them, and no automaton is constructed.
C23_ErrorsAggregated ==
    [][(/\ Build
        /\ builder.initial # None
        /\ Cardinality(ExpectedErrors(complete_reflexive_edges(Called(builder)),
                                      managers)) >= 2)
       => /\ phase' = "failed"
          /\ sm' = NoMachine
          /\ builder'.exc = "ValueError"
          /\ builder'.errors =
                ExpectedErrors(complete_reflexive_edges(Called(builder)), managers)]_vars

\* A failed build whose error lists an unregistered prompt and the missing
\* reachable terminal
C23_Witness ==
    /\ phase = "failed"
    /\ builder.exc = "ValueError"
    /\ <<"no reachable terminal">> \in builder.errors
    /\ <<"prompt not registered", "menu">> \in builder.errors

\* C24: in a server driven through the managers only, every scope exit,
\* also one of an invocation that overlapped another on its session, finds
\* an edge from the then-current state for its symbol.
C24_NoMissingEdge ==
    \A t \in Tasks : Exited(t) => tasks[t].fired # NoEdge

\* C25: a scope exit that fires an edge with an effect invokes the effect
\* once, with the context of the request, when the cursor is at the edge's
\* target and before the terminal check (the cursor is still at the target
\* when the effect starts, also when the symbol is terminal there); the end
\* of the effect invokes it no second time; an exit that fires no edge, or
\* an edge without effect, invokes nothing.
C25_EffectOrdering ==
    [][\A t \in Tasks :
          /\ \A exc_type \in {None, "error"} :
                ScopeExit(t, exc_type) =>
                    With(get_edge(TheAutomaton, cursors, tasks[t].session,
                                  make_id(tasks[t].kind, tasks[t].ident,
                                          IF exc_type = None THEN SUCCESS ELSE ERROR)),
                      LAMBDA e :
                        IF e # NoEdge /\ IsCallable(e.effect)
                        THEN /\ tasks'[t].pc = "effect"
                             /\ tasks'[t].effect_calls = 1
                             /\ tasks'[t].effect_ctx = tasks[t].ctx
                             /\ current_state(TheAutomaton, cursors', tasks[t].session)
                                   = e.to_state
                        ELSE /\ tasks'[t].pc = "done"
                             /\ tasks'[t].effect_calls = 0)
          /\ EffectDone(t) =>
                /\ tasks'[t].pc = "done"
                /\ tasks'[t].effect_calls = 1]_vars

\* A manager call whose terminal edge has an effect: the effect runs with
\* the request's context while the cursor is at the target, not yet reset
C25_Witness ==
    \E t \in Tasks :
        /\ tasks[t].pc = "effect"
        /\ tasks[t].effect_ctx = t
        /\ tasks[t].symbol_id \in TerminalsOf(builder.states, tasks[t].fired.to_state)
        /\ tasks[t].fired.to_state # sm.initial_state
        /\ CursorOf(cursors, tasks[t].session) = tasks[t].fired.to_state

\* The bindings (S, kind, ident, missing result) of a list of edges that
\* have an edge for one outcome and none for the other
HalfDeclared(edges) ==
    {h \in {<<S, b[1], b[2], r>> :
                S \in Names(builder.states), b \in script.bindings, r \in Range(ResultType)} :
        /\ EdgesOn(edges, h[1], h[2], h[3], Other(h[4])) # {}
        /\ EdgesOn(edges, h[1], h[2], h[3], h[4]) = {}}

\* C26: reflexive completion of the declared edges keeps every state with
\* its terminal set and every declared edge in its place, and appends, for
\* each binding with one outcome declared and the other missing, exactly
\* one edge S -> S on the missing outcome with no effect, and nothing else.
C26_CompletionAddsSelfLoopsOnly ==
    phase = "declare" =>
        With(complete_reflexive_edges(Called(builder)), LAMBDA B :
          /\ B.exc = None
          /\ B.states = builder.states
          /\ B.initial = builder.initial
          /\ Len(B.edges) >= Len(builder.edges)
          /\ SubSeq(B.edges, 1, Len(builder.edges)) = builder.edges
          /\ Len(B.edges) - Len(builder.edges)
                = Cardinality(HalfDeclared(builder.edges))
          /\ \A h \in HalfDeclared(builder.edges) :
                \E i \in (Len(builder.edges) + 1)..Len(B.edges) :
                    B.edges[i] = Edge(h[1], h[1], make_id(h[2], h[3], h[4]), None))

\* Declarations with two half-declared bindings, an edge with an effect and
\* a terminal set that is not empty
C26_Witness ==
    /\ phase = "declare"
    /\ Cardinality(HalfDeclared(builder.edges)) >= 2
    /\ \E i \in DOMAIN builder.edges : builder.edges[i].effect # None
    /\ \E i \in DOMAIN builder.states : builder.states[i].terminals # {}
    /\ Len(complete_reflexive_edges(Called(builder)).edges)
          = Len(builder.edges) + 2

\* For each served script: the machine build() returns and the edges the
\* script declared
DeclaredOf ==
    {<<build(Called(RunScript(NewBuilder, cs)), Registered).sm,
       Range(RunScript(NewBuilder, cs).edges)>> : cs \in RunScripts}

\* An edge of delta that the served script did not declare
Synthesized(e) == \E d \in DeclaredOf : d[1] = sm /\ e \notin d[2]

\* C27: when a scope exit that no other operation on the session overlapped
\* fires an edge that reflexive completion added, the session's cursor after
\* the exit is the state it was in before.
C27_SynthesizedStaysPut ==
    \A t \in Tasks :
        (/\ Exited(t)
         /\ ~tasks[t].disturbed
         /\ tasks[t].fired # NoEdge
         /\ Synthesized(tasks[t].fired))
        => tasks[t].post = tasks[t].pre

\* The validator as _validate constructs it after the completion pass
CompletedValidator == NewValidator(complete_reflexive_edges(Called(builder)))

\* validate() reported the one error and left the states and both edge lists
\* as they were in V
OnlyError(V, message) ==
    With(validate(V, managers), LAMBDA W :
      /\ W.issues = {ValidationIssue("error", message)}
      /\ W.states = V.states
      /\ W.edges = V.edges
      /\ W.b_edges = V.b_edges)

\* C28: validation with no initial state set, or with an initial state that
\* is not among the states, reports that error and no other (no reference
\* error, no reachability error, no warning) and changes neither the states
\* nor the edges.
C28_InitialErrorOnly ==
    phase = "declare" =>
        /\ builder.initial = None =>
              OnlyError(CompletedValidator, <<"no initial state">>)
        /\ OnlyError([CompletedValidator EXCEPT !.initial_state = "ghost"],
                     <<"initial state not found", "ghost">>)

\* No initial state, an edge on the unregistered prompt, an unreachable
\* terminal: the later phases would have errors to report
C28_Witness ==
    /\ phase = "declare"
    /\ builder.initial = None
    /\ managers = PromptMissing
    /\ \E i \in DOMAIN builder.edges :
          builder.symbols_by_id[builder.edges[i].symbol_id].kind = "prompt"
    /\ validate(CompletedValidator, managers).issues
          = {ValidationIssue("error", <<"no initial state">>)}

\* C29: after a build() that validation failed with an error, the builder
\* holds the states it had before, with their terminal sets, and the edges
\* it had before followed by the reflexively completed ones: the validator
\* removed nothing.
C29_NoPruningOnError ==
    [][((Build \/ BuildAgain) /\ builder'.exc = "ValueError") =>
          /\ phase' = "failed"
          /\ builder'.states = builder.states
          /\ builder'.edges = complete_reflexive_edges(Called(builder)).edges]_vars

\* A failed build that left a state in the builder which no edge reaches
\* from the initial state, and completed a binding
C29_Witness ==
    /\ phase = "failed"
    /\ builder.exc = "ValueError"
    /\ builder.initial # None
    /\ "reflexive completion" \in builder.warned
    /\ Names(builder.states) \ Reach(builder.edges, {builder.initial}) # {}

\* The step is the call add_state(name, is_initial=...) on the builder
AddStateCall(name, is_initial) ==
    /\ phase \in {"declare", "built"}
    /\ builder' = add_state(Called(builder), name, is_initial)

\* C30: the first add_state call with is_initial=true sets the builder's
\* initial state, and once it is set no call changes it; a later add_state
\* call with is_initial=true for another name raises nothing, leaves the
\* initial state alone and keeps every existing state as it was.
C30_FirstInitialWins ==
    [][/\ (builder.initial # None /\ phase \in {"declare", "built"})
            => builder'.initial = builder.initial
       /\ \A name \in script.names :
            /\ (AddStateCall(name, TRUE) /\ builder.initial = None)
                  => builder'.initial = name
            /\ (AddStateCall(name, FALSE) /\ builder.initial = None)
                  => builder'.initial = None
            /\ (AddStateCall(name, TRUE) /\ builder.initial \notin {None, name})
                  => /\ builder'.exc = None
                     /\ builder'.initial = builder.initial
                     /\ Len(builder'.states) >= Len(builder.states)
                     /\ SubSeq(builder'.states, 1, Len(builder.states))
                           = builder.states]_vars

\* An initial declaration for a second name was just ignored
C30_Witness ==
    /\ phase = "declare"
    /\ builder.initial # None
    /\ builder.exc = None
    /\ "initial already set" \in builder.warned
    /\ Names(builder.states) \ {builder.initial} # {}

\* The builder's declarations: states with their terminal sets, edges,
\* symbol table and initial state
Declarations(B) == <<B.states, B.edges, B.symbols_by_id, B.initial>>

\* C31: add_edge with an undeclared from-state and add_terminal with an
\* undeclared state raise KeyError, and every declaration call that raises
\* KeyError leaves states, terminal sets, edges and symbol table as they
\* were: no placeholder target state is created.
C31_DeclarationErrorsChangeNothing ==
    [][phase = "declare" =>
         /\ builder'.exc = "KeyError"
               => Declarations(builder') = Declarations(builder)
         /\ \A f \in script.names \ Names(builder.states),
               sym \in SymbolsOf(script.bindings) :
               /\ builder' = add_terminal(Called(builder), f, sym)
                     => builder'.exc = "KeyError"
               /\ \A t \in script.names, eff \in script.effects :
                     builder' = add_edge(Called(builder), f, t, sym, eff)
                        => builder'.exc = "KeyError"]_vars

\* A call just raised KeyError on a builder that has states and lacks one
C31_Witness ==
    /\ phase = "declare"
    /\ builder.exc = "KeyError"
    /\ builder.states # <<>>
    /\ script.names \ Names(builder.states) # {}

\* Between C and D no existing cursor changed, and the only entry created
\* is the one of session sid, at q0
OnlyCreates(C, D, sid) ==
    /\ D.global = C.global
    /\ \A s \in SessionIds :
          \/ D.by_session[s] = C.by_session[s]
          \/ /\ C.by_session[s] = None
             /\ s = sid
             /\ D.by_session[s] = sm.initial_state

\* C32: the steps made of read operations only leave every existing cursor
\* where it is and create at most the ambient session's entry, at q0.  These
\* are: a request entering (the gate's current_state and symbol lookup,
\* step() and the scope entry), a request returning, and a scope exit that
\* finds no edge and no terminal mark (get_edge, current_state, is_terminal).
\* So a step that changes an existing cursor is a scope exit with an edge or
\* a terminal mark, a reset or a set_current_state.
C32_ReadsMoveNoCursor ==
    [][\A t \in Tasks :
         /\ (tasks[t].pc = "idle" /\ tasks'[t].pc # "idle")
               => OnlyCreates(cursors, cursors', tasks'[t].session)
         /\ (tasks[t].pc = "done" /\ tasks'[t].pc = "idle")
               => cursors' = cursors
         /\ (/\ tasks[t].pc = "running" /\ tasks'[t].pc = "done"
             /\ tasks'[t].fired = NoEdge
             /\ ~is_terminal(TheAutomaton, cursors, tasks[t].session,
                             tasks'[t].symbol_id).v)
               => OnlyCreates(cursors, cursors', tasks[t].session)]_vars

\* A request entered on a session whose cursor was away from q0, and
\* nothing else has touched that cursor since
C32_Witness ==
    \E t \in Tasks :
        /\ tasks[t].pc = "running"
        /\ ~tasks[t].disturbed
        /\ tasks[t].session # None
        /\ cursors.by_session[tasks[t].session] \notin {None, sm.initial_state}

\* C33: with no ambient session current_state returns the global cursor,
\* and a step that reads or writes the machine with no ambient session
\* (gate lookup, scope exit, reset, set_current_state) leaves the
\* per-session map as it was; a step made under an ambient session leaves
\* the global cursor as it was.
C33_GlobalFallback ==
    [][/\ current_state(TheAutomaton, cursors, None) = cursors.global
       /\ Touches(None) => cursors'.by_session = cursors.by_session
       /\ \A sid \in SessionIds :
             Touches(sid) => cursors'.global = cursors.global]_vars

\* A scope exit without ambient session moved the global cursor while one
\* session has a cursor elsewhere and the other has no entry
C33_Witness ==
    /\ cursors.global # sm.initial_state
    /\ \E s \in SessionIds :
          /\ cursors.by_session[s] \notin {None, cursors.global}
          /\ \E u \in SessionIds \ {s} : cursors.by_session[u] = None
    /\ \E t \in Tasks :
          /\ Exited(t)
          /\ tasks[t].session = None
          /\ tasks[t].fired # NoEdge
          /\ tasks[t].post = cursors.global

\* The kinds of binding and the identifiers a script can name
Kinds == {"tool", "prompt", "resource"}

Idents == {b[2] : b \in script.bindings}

\* The identifiers i for which delta has an edge from S on a symbol of
\* that kind and identifier
IdentsOfDelta(S, kind) ==
    {i \in Idents :
        \E r \in Range(ResultType), e \in Range(sm.edges) :
            e.from_state = S /\ e.symbol_id = make_id(kind, i, r)}

\* C34: on a built automaton, with the ambient session's cursor at any state
\* of Q, available_symbols(kind) raises nothing and returns exactly the
\* identifiers of that kind on the edges of delta leaving that state.
C34_AvailableSymbolsExact ==
    phase = "built" =>
        \A S \in Q, sid \in Ambient, kind \in Kinds :
            available_symbols(TheAutomaton,
                              set_current_state(TheAutomaton, cursors, sid, S).c,
                              sid, kind)
              = [v |-> IdentsOfDelta(S, kind), exc |-> None]

\* A built automaton with a state that offers a tool and a prompt under
\* different identifiers
C34_Witness ==
    /\ phase = "built"
    /\ \E S \in Q :
          /\ IdentsOfDelta(S, "tool") # {}
          /\ IdentsOfDelta(S, "prompt") # {}
          /\ IdentsOfDelta(S, "tool") # IdentsOfDelta(S, "prompt")

\* All orderings of the calls of a set
RECURSIVE Orderings(_)
Orderings(D) ==
    IF D = {} THEN {<<>>}
    ELSE UNION {{<<c>> \o p : p \in Orderings(D \ {c})} : c \in D}

\* An ordering in which no call meets an undeclared state
Admissible(p) == RunDeclarations(NewBuilder, p).exc = None

\* What build() yields: Q with the terminal sets, delta and q0, or no automaton
Outcome(r) ==
    IF r.b.exc # None THEN <<"no automaton">>
    ELSE <<Range(r.b.states), Range(r.sm.edges), r.sm.initial_state>>

\* C35: for a conflict-free declaration set with one explicit initial
\* state, build() after any ordering of the calls in which no call names an
\* undeclared state yields what it yields after one fixed such ordering:
\* the same states with the same terminal sets, the same edges and the same
\* q0, or no automaton in both.
C35_OrderIndependent ==
    (/\ phase \in {"built", "failed"}
     /\ script.pending = {}
     /\ builder.exc # "KeyError")
        => Outcome([b |-> builder, sm |-> sm])
             = Outcome(build(Called(RunDeclarations(NewBuilder,
                   CHOOSE p \in Orderings(script.decls) : Admissible(p))),
                   managers))

\* An automaton built from MaxDecls calls made in an order that left the
\* builder's lists in another order than the fixed ordering does
C35_Witness ==
    /\ phase = "built"
    /\ Cardinality(script.decls) = MaxDecls
    /\ Len(sm.edges) >= 2
    /\ With(build(Called(RunDeclarations(NewBuilder,
                CHOOSE p \in Orderings(script.decls) : Admissible(p))),
                managers),
            LAMBDA r : r.sm.edges # sm.edges /\ Outcome(r) = Outcome([b |-> builder, sm |-> sm]))

\* The symbol ids of the requests clients can send
RequestSymbolIds ==
    {make_id(r[1], r[2], res) : r \in Requests, res \in Range(ResultType)}

\* C36: the global cursor and every stored session cursor name a state of
\* Q, every state an edge leads to from a state of Q that q0 reaches is in
\* Q, and for every ambient session is_terminal raises nothing and get_edge
\* returns an edge leaving the current state or none.
C36_CursorValidity ==
    /\ cursors.global \in Q
    /\ \A s \in SessionIds : cursors.by_session[s] \in Q \cup {None}
    /\ Reach(sm.edges, {sm.initial_state}) \subseteq Q
    /\ \A sid \in Ambient, symbol_id \in RequestSymbolIds :
          /\ is_terminal(TheAutomaton, cursors, sid, symbol_id).exc = None
          /\ With(get_edge(TheAutomaton, cursors, sid, symbol_id), LAMBDA e :
                \/ e = NoEdge
                \/ /\ e.from_state = current_state(TheAutomaton, cursors, sid)
                   /\ e.to_state \in Q)
    /\ \A t \in Tasks : tasks[t].raised \notin {"KeyError", "ValueError"}

\* After an edge fired on a session, on an automaton whose delta still has
\* an edge of a state that was removed from Q
C36_Witness ==
    /\ \E e \in Range(sm.edges) : e.from_state \notin Q
    /\ \E t \in Tasks :
          /\ Exited(t)
          /\ tasks[t].fired # NoEdge
          /\ tasks[t].session # None
          /\ cursors.by_session[tasks[t].session] \in Q

\* The edges a script declared through on_success / on_error with
\* terminal=False
NonTerminalDeclared(cs) ==
    {Edge(cs[i].from_state, cs[i].to_state,
          make_id(cs[i].kind, cs[i].name,
                  IF cs[i].op = "on_success" THEN SUCCESS ELSE ERROR),
          cs[i].effect) :
        i \in {j \in DOMAIN cs : cs[j].op # "add_state" /\ ~cs[j].terminal}}

\* C37: when a scope exit that no other operation on the session overlapped
\* fires an edge the script declared with terminal=False, the session's
\* cursor after the exit is the edge's target: no reset to q0 happened.
C37_TerminalityFollowsEdge ==
    \A t \in Tasks :
        (/\ Exited(t)
         /\ ~tasks[t].disturbed
         /\ tasks[t].fired \in NonTerminalDeclared(script.declared))
        => tasks[t].post = tasks[t].fired.to_state

\* An edge of delta whose symbol is terminal for its target: firing it
\* resets the cursor to q0
TerminalEdge(e) == e.symbol_id \in TerminalsOf(builder.states, e.to_state)

\* The states a cursor can rest in after sequential steps: q0 and what the
\* edges that are not terminal lead to from there
RECURSIVE RestStates(_)
RestStates(S) ==
    With(S \cup {e.to_state : e \in {x \in Range(sm.edges) :
                                        x.from_state \in S /\ ~TerminalEdge(x)}},
         LAMBDA T : IF T = S THEN S ELSE RestStates(T))

\* Some sequence of edges from S ends with a terminal edge
CanTerminateFrom(S) ==
    \E e \in Range(sm.edges) :
        e.from_state \in Reach(sm.edges, {S}) /\ TerminalEdge(e)

\* C38: in a built automaton, from every state a session's cursor can rest
\* in after sequential steps some sequence of edges leads to a terminal edge.
C38_NoStuckSessions ==
    phase = "built" =>
        \A S \in RestStates({sm.initial_state}) : CanTerminateFrom(S)

\* Task t has moved the cursor of its session along a terminal edge into a
\* state other than q0 and has not yet made the terminal check
MovedNotReset(t) ==
    /\ tasks[t].pc = "effect"
    /\ tasks[t].session # None
    /\ tasks[t].fired.to_state # sm.initial_state
    /\ tasks[t].symbol_id \in TerminalsOf(builder.states, tasks[t].fired.to_state)

\* C39: while a request has moved its session's cursor along a terminal
\* edge and not yet reset it, no other request of the session has read the
\* cursor at the edge's target: a request the gate has just refused on that
\* session read some other state.
C39_MoveAndResetIndivisible ==
    \A t \in Tasks, u \in Tasks :
        (/\ u # t
         /\ MovedNotReset(t)
         /\ tasks[u].pc = "done"
         /\ ~tasks[u].ran
         /\ tasks[u].session = tasks[t].session)
        => tasks[u].pre # tasks[t].fired.to_state

\* C40: in a built automaton every symbol id in the terminal set of a
\* state of Q is the symbol of an edge of delta into that state.
C40_TerminalsBacked ==
    phase = "built" =>
        \A i \in DOMAIN builder.states :
            \A symbol_id \in builder.states[i].terminals :
                \E e \in Range(sm.edges) :
                    /\ e.to_state = builder.states[i].name
                    /\ e.symbol_id = symbol_id

====
